---- MODULE Spec2Model ----
(***************************************************************************)
(* Model of the world-banking-display data pipeline: the quote-aware CSV   *)
(* tokenizer and exporter (csv-parser.ts), the banking record mapper       *)
(* (banking-csv-parser), the profile manager with its incremental merge    *)
(* policy (profile-manager) and the dashboard's session-clustering hour    *)
(* estimate.                                                               *)
(*                                                                         *)
(* A text is a sequence of one-character strings.  An instant is a number  *)
(* of minutes since 1970-01-01T00:00Z (every date literal the code reads   *)
(* has minute resolution); a JavaScript Date is <<t>> when valid and <<>>  *)
(* when it is an Invalid Date.  The host time zone is UTC.                 *)
(***************************************************************************)
EXTENDS Integers, Sequences, FiniteSets, TLC

\* ------------------------------------------------------------------------
\* Characters and strings
\* ------------------------------------------------------------------------

QUOTE == "\""

COMMA == ","

NL == "\n"

WhiteSpace == {" ", "\t", "\r", "\n"}

Digits == <<"0", "1", "2", "3", "4", "5", "6", "7", "8", "9">>

UpperCase == <<"A", "B", "C", "D", "E", "F", "G", "H", "I", "J", "K", "L", "M",
               "N", "O", "P", "Q", "R", "S", "T", "U", "V", "W", "X", "Y", "Z">>

LowerCase == <<"a", "b", "c", "d", "e", "f", "g", "h", "i", "j", "k", "l", "m",
               "n", "o", "p", "q", "r", "s", "t", "u", "v", "w", "x", "y", "z">>

Range(s) == {s[i] : i \in DOMAIN s}

DigitChars == Range(Digits)

UpperChars == Range(UpperCase)

\* \w of a JavaScript regular expression
WordChars == Range(Digits) \cup Range(UpperCase) \cup Range(LowerCase) \cup {"_"}

IsDigit(c) == c \in DigitChars

IsWordChar(c) == c \in WordChars

IsSpace(c) == c \in WhiteSpace

DigitValue(c) == (CHOOSE i \in DOMAIN Digits : Digits[i] = c) - 1

\* parseInt of a string of decimal digits
RECURSIVE ParseInt(_)
ParseInt(s) ==
    IF s = <<>> THEN 0
    ELSE 10 * ParseInt(SubSeq(s, 1, Len(s) - 1)) + DigitValue(s[Len(s)])

\* String(n) for a natural number
RECURSIVE IntToStr(_)
IntToStr(n) ==
    IF n < 10 THEN <<Digits[n + 1]>>
    ELSE IntToStr(n \div 10) \o <<Digits[(n % 10) + 1]>>

ToLowerChar(c) ==
    IF c \in UpperChars
    THEN LowerCase[CHOOSE i \in DOMAIN UpperCase : UpperCase[i] = c]
    ELSE c

ToLowerCase(s) == [i \in DOMAIN s |-> ToLowerChar(s[i])]

\* String.prototype.trim
Trim(s) ==
    LET keep == {i \in DOMAIN s : ~IsSpace(s[i])}
    IN  IF keep = {} THEN <<>>
        ELSE SubSeq(s, CHOOSE i \in keep : \A j \in keep : i <= j,
                       CHOOSE i \in keep : \A j \in keep : i >= j)

\* String.prototype.includes
Includes(s, sub) ==
    \E i \in 1..(Len(s) - Len(sub) + 1) : SubSeq(s, i, i + Len(sub) - 1) = sub

\* String.prototype.split('\n'): the pieces between consecutive line feeds
SplitLines(s) ==
    LET breaks == {i \in DOMAIN s : s[i] = NL} \cup {0, Len(s) + 1}
        starts == breaks \ {Len(s) + 1}
        upTo(n) == Cardinality({b \in starts : b < n})
    IN  [k \in 1..Cardinality(starts) |->
            LET b == CHOOSE x \in starts : upTo(x) = k - 1
                e == CHOOSE x \in breaks : x > b /\ \A y \in breaks : y > b => x <= y
            IN  SubSeq(s, b + 1, e - 1)]

\* Array.prototype.join
RECURSIVE Join(_, _)
Join(parts, sep) ==
    IF parts = <<>> THEN <<>>
    ELSE IF Len(parts) = 1 THEN parts[1]
    ELSE parts[1] \o sep \o Join(Tail(parts), sep)

\* Array.prototype.filter
RECURSIVE SelectSeqIdx(_, _, _)
SelectSeqIdx(s, keep, i) ==
    IF i > Len(s) THEN <<>>
    ELSE (IF i \in keep THEN <<s[i]>> ELSE <<>>) \o SelectSeqIdx(s, keep, i + 1)

\* ------------------------------------------------------------------------
\* Numbers: IEEE 754 binary64 with round-to-nearest, ties-to-even
\*
\* A natural number of any size is a sequence of limbs, least significant
\* first, without a leading zero limb; zero is <<>>.  A JavaScript number is
\* NaN or the finite value (-1)^neg * m * 2^e with m zero or odd, so that
\* equal values have equal representations.  The exponent range is not
\* bounded and there is no infinity and no negative zero: no amount the
\* model reads comes near the largest or the smallest binary64, and the
\* comparisons of the code do not tell the two zeros apart.
\* ------------------------------------------------------------------------

LimbBits == 15

LimbBase == 32768

\* number of significant bits of a binary64
Precision == 53

RECURSIVE BigTrim(_)
BigTrim(a) ==
    IF a # <<>> /\ a[Len(a)] = 0 THEN BigTrim(SubSeq(a, 1, Len(a) - 1)) ELSE a

Limb(a, i) == IF i <= Len(a) THEN a[i] ELSE 0

BigFromInt(n) == BigTrim(<<n % LimbBase, n \div LimbBase>>)

RECURSIVE BigAddFrom(_, _, _, _)
BigAddFrom(a, b, i, carry) ==
    IF i > Len(a) /\ i > Len(b)
    THEN IF carry = 0 THEN <<>> ELSE <<carry>>
    ELSE LET s == Limb(a, i) + Limb(b, i) + carry
         IN  <<s % LimbBase>> \o BigAddFrom(a, b, i + 1, s \div LimbBase)

BigAdd(a, b) == BigAddFrom(a, b, 1, 0)

RECURSIVE BigSubFrom(_, _, _, _)
BigSubFrom(a, b, i, borrow) ==
    IF i > Len(a) THEN <<>>
    ELSE LET d == Limb(a, i) - Limb(b, i) - borrow
         IN  <<(d + LimbBase) % LimbBase>> \o BigSubFrom(a, b, i + 1, IF d < 0 THEN 1 ELSE 0)

\* a - b for a >= b
BigSub(a, b) == BigTrim(BigSubFrom(a, b, 1, 0))

BigLess(a, b) ==
    IF Len(a) # Len(b) THEN Len(a) < Len(b)
    ELSE \E i \in DOMAIN a : a[i] < b[i] /\ \A j \in (i + 1)..Len(a) : a[j] = b[j]

\* a * k for 0 <= k <= LimbBase
RECURSIVE BigMulFrom(_, _, _, _)
BigMulFrom(a, k, i, carry) ==
    IF i > Len(a)
    THEN IF carry = 0 THEN <<>> ELSE <<carry>>
    ELSE LET p == a[i] * k + carry
         IN  <<p % LimbBase>> \o BigMulFrom(a, k, i + 1, p \div LimbBase)

BigMulSmall(a, k) == BigTrim(BigMulFrom(a, k, 1, 0))

\* quotient limbs 1..i and remainder of a \div d, from limb i down, 0 < d <= LimbBase
RECURSIVE BigDivFrom(_, _, _, _)
BigDivFrom(a, d, i, r) ==
    IF i = 0 THEN [q |-> <<>>, r |-> r]
    ELSE LET cur  == r * LimbBase + a[i]
             rest == BigDivFrom(a, d, i - 1, cur % d)
         IN  [q |-> Append(rest.q, cur \div d), r |-> rest.r]

BigDivSmall(a, d) ==
    LET x == BigDivFrom(a, d, Len(a), 0)
    IN  [q |-> BigTrim(x.q), r |-> x.r]

\* a * 2^k
BigShiftLeft(a, k) ==
    IF a = <<>> THEN <<>>
    ELSE [i \in 1..(k \div LimbBits) |-> 0] \o BigMulSmall(a, 2 ^ (k % LimbBits))

\* a \div 2^k
BigShiftRight(a, k) ==
    BigDivSmall(SubSeq(a, (k \div LimbBits) + 1, Len(a)), 2 ^ (k % LimbBits)).q

BigBitLen(a) ==
    IF a = <<>> THEN 0
    ELSE LimbBits * (Len(a) - 1)
         + (CHOOSE b \in 1..LimbBits : 2 ^ (b - 1) <= a[Len(a)] /\ a[Len(a)] < 2 ^ b)

BigIsOdd(a) == a # <<>> /\ a[1] % 2 = 1

NaN == [nan |-> TRUE, neg |-> FALSE, m |-> <<>>, e |-> 0]

Zero == [nan |-> FALSE, neg |-> FALSE, m |-> <<>>, e |-> 0]

\* the number (-1)^neg * n * 2^e, n of at most Precision bits
RECURSIVE Canon(_, _, _)
Canon(neg, n, e) ==
    IF n = <<>> THEN Zero
    ELSE IF n[1] = 0 THEN Canon(neg, Tail(n), e + LimbBits)
    ELSE LET t == CHOOSE k \in 0..(LimbBits - 1) :
                      n[1] % (2 ^ k) = 0 /\ (n[1] \div (2 ^ k)) % 2 = 1
         IN  [nan |-> FALSE, neg |-> neg, m |-> BigDivSmall(n, 2 ^ t).q, e |-> e + t]

\* The binary64 nearest to (-1)^neg * (n + f) * 2^e, ties to even, where
\* 0 <= f < 1 and sticky tells whether f > 0; a caller that passes a sticky
\* f makes n longer than Precision bits.
RoundUp(neg, q, rem, half, e, sticky) ==
    Canon(neg,
          IF BigLess(half, rem) \/ (rem = half /\ (sticky \/ BigIsOdd(q)))
          THEN BigAdd(q, <<1>>) ELSE q,
          e)

\* q is n \div 2^k
RoundQuotient(neg, n, q, k, e, sticky) ==
    RoundUp(neg, q, BigSub(n, BigShiftLeft(q, k)), BigShiftLeft(<<1>>, k - 1), e + k, sticky)

RoundToDouble(neg, n, e, sticky) ==
    IF BigBitLen(n) <= Precision THEN Canon(neg, n, e)
    ELSE RoundQuotient(neg, n, BigShiftRight(n, BigBitLen(n) - Precision),
                       BigBitLen(n) - Precision, e, sticky)

\* a + b
\* (-1)^aneg * am * 2^e + (-1)^bneg * bm * 2^e
AddAligned(aneg, am, bneg, bm, e) ==
    RoundToDouble(IF aneg = bneg \/ ~BigLess(am, bm) THEN aneg ELSE bneg,
                  IF aneg = bneg THEN BigAdd(am, bm)
                  ELSE IF BigLess(am, bm) THEN BigSub(bm, am) ELSE BigSub(am, bm),
                  e, FALSE)

AddAt(a, b, e) ==
    AddAligned(a.neg, BigShiftLeft(a.m, a.e - e), b.neg, BigShiftLeft(b.m, b.e - e), e)

NumAdd(a, b) ==
    IF a.nan \/ b.nan THEN NaN
    ELSE AddAt(a, b, IF a.e < b.e THEN a.e ELSE b.e)

\* -a
NumNeg(a) == IF a.nan \/ a.m = <<>> THEN a ELSE [a EXCEPT !.neg = ~a.neg]

\* a - b
NumSub(a, b) == NumAdd(a, NumNeg(b))

\* Math.abs(a)
NumAbs(a) == [a EXCEPT !.neg = FALSE]

\* a > 0
NumPositive(a) == ~a.nan /\ ~a.neg /\ a.m # <<>>

\* a < 0
NumNegative(a) == ~a.nan /\ a.neg

\* a === b
NumEq(a, b) == ~a.nan /\ ~b.nan /\ a = b

\* x is a quotient with its remainder
RoundDivided(neg, x, e) == RoundToDouble(neg, x.q, e, x.r # 0)

\* a / n for an integer 0 <= n < LimbBase
NumDivInt(a, n) ==
    IF a.nan \/ (n = 0 /\ a.m = <<>>) THEN NaN
    ELSE IF a.m = <<>> THEN Zero
    ELSE RoundDivided(a.neg, BigDivSmall(BigShiftLeft(a.m, 5 * LimbBits), n),
                      a.e - 5 * LimbBits)

\* the natural number a string of decimal digits denotes
RECURSIVE BigFromDigits(_, _, _)
BigFromDigits(s, i, acc) ==
    IF i > Len(s) THEN acc
    ELSE BigFromDigits(s, i + 1, BigAdd(BigMulSmall(acc, 10), BigFromInt(DigitValue(s[i]))))

\* n * 10^k
RECURSIVE BigTimesPow10(_, _)
BigTimesPow10(n, k) == IF k = 0 THEN n ELSE BigTimesPow10(BigMulSmall(n, 10), k - 1)

\* n \div 10^k together with whether anything was cut off
RECURSIVE BigDivPow10(_, _, _)
BigDivPow10(n, k, cut) ==
    IF k = 0 THEN [q |-> n, cut |-> cut]
    ELSE LET x == BigDivSmall(n, 10)
         IN  BigDivPow10(x.q, k - 1, cut \/ x.r # 0)

\* x is a quotient with whether anything was cut off
RoundCut(x, e) == RoundToDouble(FALSE, x.q, e, x.cut)

\* the binary64 nearest to n / 10^k, n > 0
DecimalShifted(n, k, shift) ==
    RoundCut(BigDivPow10(BigShiftLeft(n, shift), k, FALSE), 0 - shift)

DecimalToDouble(n, k) == DecimalShifted(n, k, Precision + 2 + 4 * k)

\* end of the longest run of digits of s that starts at i (i - 1 when none)
DigitRunEnd(s, i) ==
    CHOOSE j \in (i - 1)..Len(s) :
        /\ \A k \in i..j : IsDigit(s[k])
        /\ j = Len(s) \/ ~IsDigit(s[j + 1])

Signed(neg, magnitude) == IF neg THEN NumNeg(magnitude) ELSE magnitude

\* the number (-1)^neg * digits / 10^scale
DecimalValue(neg, digits, scale) ==
    IF digits = <<>> THEN Zero
    ELSE Signed(neg, IF scale <= 0
                     THEN RoundToDouble(FALSE, BigTimesPow10(digits, 0 - scale), 0, FALSE)
                     ELSE DecimalToDouble(digits, scale))

LiteralValue(neg, intPart, fracPart, exponent) ==
    IF Len(intPart) + Len(fracPart) = 0 THEN NaN
    ELSE DecimalValue(neg, BigFromDigits(intPart \o fracPart, 1, <<>>), Len(fracPart) - exponent)

ExponentValue(negative, digits) ==
    IF digits = <<>> THEN 0
    ELSE IF negative THEN 0 - ParseInt(digits) ELSE ParseInt(digits)

ExponentFrom(s, from, negative) == ExponentValue(negative, SubSeq(s, from, DigitRunEnd(s, from)))

\* the exponent part that follows position fracEnd, 0 when there is none
ExponentPart(s, fracEnd) ==
    IF fracEnd < Len(s) /\ s[fracEnd + 1] \in {"e", "E"}
    THEN IF fracEnd + 1 < Len(s) /\ s[fracEnd + 2] \in {"-", "+"}
         THEN ExponentFrom(s, fracEnd + 3, s[fracEnd + 2] = "-")
         ELSE ExponentFrom(s, fracEnd + 2, FALSE)
    ELSE 0

\* the integer digits are s[p..intEnd]; fracEnd is intEnd when no point follows
FromFraction(s, neg, p, intEnd, fracEnd) ==
    LiteralValue(neg, SubSeq(s, p, intEnd),
                 IF fracEnd > intEnd THEN SubSeq(s, intEnd + 2, fracEnd) ELSE <<>>,
                 ExponentPart(s, fracEnd))

FromInteger(s, neg, p, intEnd) ==
    FromFraction(s, neg, p, intEnd,
                 IF intEnd < Len(s) /\ s[intEnd + 1] = "."
                 THEN DigitRunEnd(s, intEnd + 2) ELSE intEnd)

StrDecimalLiteral(s) ==
    FromInteger(s, s # <<>> /\ s[1] = "-",
                IF s # <<>> /\ s[1] \in {"-", "+"} THEN 2 ELSE 1,
                DigitRunEnd(s, IF s # <<>> /\ s[1] \in {"-", "+"} THEN 2 ELSE 1))

\* parseFloat: the longest prefix, after leading white space, that is a
\* decimal literal (sign, digits, fraction, exponent); NaN when there is
\* none.  The literal "Infinity" is not read.
parseFloat(str) ==
    StrDecimalLiteral(SubSeq(str, Cardinality({i \in DOMAIN str :
                                     \A j \in 1..i : IsSpace(str[j])}) + 1, Len(str)))

\* ------------------------------------------------------------------------
\* CSVParser (csv-parser.ts), default options
\* ------------------------------------------------------------------------

trimWhitespace == TRUE

handleEmptyHeaders == TRUE

\* parseCSVLine without the escaped-quote branch: every quote toggles
RECURSIVE ParseCSVLineToggleFrom(_, _, _, _, _)
ParseCSVLineToggleFrom(line, i, current, inQuotes, values) ==
    IF i > Len(line) THEN Append(values, current)
    ELSE IF line[i] = QUOTE
         THEN ParseCSVLineToggleFrom(line, i + 1, current, ~inQuotes, values)
    ELSE IF line[i] = COMMA /\ ~inQuotes
         THEN ParseCSVLineToggleFrom(line, i + 1, <<>>, inQuotes, Append(values, current))
    ELSE ParseCSVLineToggleFrom(line, i + 1, Append(current, line[i]), inQuotes, values)

RECURSIVE ParseCSVLineFrom(_, _, _, _, _)
ParseCSVLineFrom(line, i, current, inQuotes, values) ==
    IF i > Len(line) THEN Append(values, current)
    ELSE IF line[i] = QUOTE
         THEN IF inQuotes /\ i + 1 <= Len(line) /\ line[i + 1] = QUOTE
              THEN ParseCSVLineFrom(line, i + 2, Append(current, QUOTE), inQuotes, values)
              ELSE ParseCSVLineFrom(line, i + 1, current, ~inQuotes, values)
    ELSE IF line[i] = COMMA /\ ~inQuotes
         THEN ParseCSVLineFrom(line, i + 1, <<>>, inQuotes, Append(values, current))
    ELSE ParseCSVLineFrom(line, i + 1, Append(current, line[i]), inQuotes, values)

parseCSVLine(line) == ParseCSVLineFrom(line, 1, <<>>, FALSE, <<>>)

\* processHeaders that numbers an empty header by its zero-based position
processHeadersZeroBased(headers) ==
    [index \in DOMAIN headers |->
        LET processedHeader == Trim(headers[index])
        IN  IF processedHeader = <<>> /\ handleEmptyHeaders
            THEN IF index = 1
                 THEN <<"T", "r", "a", "n", "s", "a", "c", "t", "i", "o", "n", "I", "D">>
                 ELSE <<"C", "o", "l", "u", "m", "n">> \o IntToStr(index - 1)
            ELSE processedHeader]

processHeaders(headers) ==
    [index \in DOMAIN headers |->
        LET processedHeader == Trim(headers[index])
        IN  IF processedHeader = <<>> /\ handleEmptyHeaders
            THEN IF index = 1
                 THEN <<"T", "r", "a", "n", "s", "a", "c", "t", "i", "o", "n", "I", "D">>
                 ELSE <<"C", "o", "l", "u", "m", "n">> \o IntToStr(index)
            ELSE processedHeader]

\* BuildRow in which a header that occurs twice keeps its first value
BuildRowFirst(processedHeaders, values) ==
    [header \in Range(processedHeaders) |->
        LET index == CHOOSE i \in DOMAIN processedHeaders :
                        /\ processedHeaders[i] = header
                        /\ \A j \in DOMAIN processedHeaders :
                              processedHeaders[j] = header => j >= i
        IN  IF index <= Len(values)
            THEN IF trimWhitespace THEN Trim(values[index]) ELSE values[index]
            ELSE <<>>]

\* A CSVRow is a function from header names to values; a header that occurs
\* twice keeps the value of its last position.
BuildRow(processedHeaders, values) ==
    [header \in Range(processedHeaders) |->
        LET index == CHOOSE i \in DOMAIN processedHeaders :
                        /\ processedHeaders[i] = header
                        /\ \A j \in DOMAIN processedHeaders :
                              processedHeaders[j] = header => j <= i
        IN  IF index <= Len(values)
            THEN IF trimWhitespace THEN Trim(values[index]) ELSE values[index]
            ELSE <<>>]

EmptyTable == [headers |-> <<>>, rows |-> <<>>, totalRows |-> 0]

parse(csvContent) ==
    LET all   == SplitLines(csvContent)
        lines == SelectSeqIdx(all, {i \in DOMAIN all : Trim(all[i]) # <<>>}, 1)
    IN  IF Len(lines) = 0 THEN EmptyTable
        ELSE LET processedHeaders == processHeaders(parseCSVLine(lines[1]))
                 rows == [k \in 1..(Len(lines) - 1) |->
                             BuildRow(processedHeaders, parseCSVLine(Trim(lines[k + 1])))]
             IN  [headers |-> processedHeaders, rows |-> rows, totalRows |-> Len(rows)]

\* row[header] || ''
RowGet(row, header) == IF header \in DOMAIN row THEN row[header] ELSE <<>>

Quoted(s) == <<QUOTE>> \o s \o <<QUOTE>>

\* exportToCSV without the quotes around each field
exportToCSVBare(table) ==
    LET headerLine == Join(table.headers, <<COMMA>>)
        dataLines  == [r \in DOMAIN table.rows |->
                          Join([i \in DOMAIN table.headers |->
                                   RowGet(table.rows[r], table.headers[i])], <<COMMA>>)]
    IN  Join(<<headerLine>> \o dataLines, <<NL>>)

exportToCSV(table) ==
    LET headerLine == Join([i \in DOMAIN table.headers |-> Quoted(table.headers[i])], <<COMMA>>)
        dataLines  == [r \in DOMAIN table.rows |->
                          Join([i \in DOMAIN table.headers |->
                                   Quoted(RowGet(table.rows[r], table.headers[i]))], <<COMMA>>)]
    IN  Join(<<headerLine>> \o dataLines, <<NL>>)

\* isNaN(num) ? NaN : (isNegative ? -num : num)
AmountOf(isNegative, num) == IF num.nan THEN NaN ELSE IF isNegative THEN NumNeg(num) ELSE num

\* parseAmount after the currency symbols, commas and spaces are removed
AmountOfClean(cleanStr, isNegative) ==
    AmountOf(isNegative, parseFloat(IF isNegative THEN Tail(cleanStr) ELSE cleanStr))

StartsWithMinus(str) == str # <<>> /\ str[1] = "-"

\* parseAmount: "+$500", "-$2,500" to numbers
parseAmount(amountStr) ==
    AmountOfClean(SelectSeq(amountStr, LAMBDA c : c \notin {"$", ",", "+"} /\ ~IsSpace(c)),
                  StartsWithMinus(SelectSeq(amountStr,
                                            LAMBDA c : c \notin {"$", ",", "+"} /\ ~IsSpace(c))))

\* ------------------------------------------------------------------------
\* Dates
\* ------------------------------------------------------------------------

NaNDate == <<>>

IsNaN(d) == d = <<>>

GetTime(d) == d[1]

\* new Date(0)
EpochDate == <<0>>

MinutesPerDay == 1440

\* Days from 1970-01-01 to the first day of month m0 (0-based) of year y.
DayFromYearMonth(y, m0) ==
    LET m   == m0 + 1
        yy  == IF m <= 2 THEN y - 1 ELSE y
        era == yy \div 400
        yoe == yy - era * 400
        mp  == IF m > 2 THEN m - 3 ELSE m + 9
        doy == (153 * mp + 2) \div 5
        doe == yoe * 365 + yoe \div 4 - yoe \div 100 + doy
    IN  era * 146097 + doe - 719468

\* new Date(year, monthIndex, day, hours, minutes): local time, years 0..99
\* mean 1900..1999, out-of-range days, hours and minutes carry over.
MakeDate(year, monthIndex, day, hours, minutes) ==
    LET fullYear == IF year >= 0 /\ year <= 99 THEN 1900 + year ELSE year
    IN  <<(DayFromYearMonth(fullYear, monthIndex) + day - 1) * MinutesPerDay
            + hours * 60 + minutes>>

MonthNames == << <<"J", "a", "n">>, <<"F", "e", "b">>, <<"M", "a", "r">>,
                 <<"A", "p", "r">>, <<"M", "a", "y">>, <<"J", "u", "n">>,
                 <<"J", "u", "l">>, <<"A", "u", "g">>, <<"S", "e", "p">>,
                 <<"O", "c", "t">>, <<"N", "o", "v">>, <<"D", "e", "c">> >>

\* months[mon] ?? 0
MonthIndex(mon) ==
    IF \E i \in DOMAIN MonthNames : MonthNames[i] = mon
    THEN (CHOOSE i \in DOMAIN MonthNames : MonthNames[i] = mon) - 1
    ELSE 0

AllDigits(s, from, to) == \A k \in from..to : IsDigit(s[k])

\* Index of the first character at or after position j that is not white
\* space (Len(s) + 1 when there is none).
RECURSIVE SkipSpaces(_, _)
SkipSpaces(s, j) ==
    IF j <= Len(s) /\ IsSpace(s[j]) THEN SkipSpaces(s, j + 1) ELSE j

\* /(\d{2})\/(\w{3})\/(\d{4})\s+(\d{2}):(\d{2})/ matched at position i
MatchesAt(s, i) ==
    /\ i + 11 <= Len(s)
    /\ AllDigits(s, i, i + 1)
    /\ s[i + 2] = "/"
    /\ \A k \in (i + 3)..(i + 5) : IsWordChar(s[k])
    /\ s[i + 6] = "/"
    /\ AllDigits(s, i + 7, i + 10)
    /\ IsSpace(s[i + 11])
    /\ LET j == SkipSpaces(s, i + 11)
       IN  /\ j + 4 <= Len(s)
           /\ AllDigits(s, j, j + 1)
           /\ s[j + 2] = ":"
           /\ AllDigits(s, j + 3, j + 4)

DaysInMonth(y, m0) == DayFromYearMonth(y + (m0 + 1) \div 12, (m0 + 1) % 12) - DayFromYearMonth(y, m0)

\* new Date(dateStr) for the date-time string formats of ECMAScript:
\* YYYY-MM-DD (UTC) and YYYY-MM-DDTHH:mm (local time); any other string of
\* the model's alphabet is an Invalid Date.
NewDateFromString(s) ==
    LET dateOk == /\ Len(s) \in {10, 16}
                  /\ AllDigits(s, 1, 4) /\ s[5] = "-"
                  /\ AllDigits(s, 6, 7) /\ s[8] = "-"
                  /\ AllDigits(s, 9, 10)
        timeOk == Len(s) = 16 => /\ s[11] = "T"
                                 /\ AllDigits(s, 12, 13) /\ s[14] = ":"
                                 /\ AllDigits(s, 15, 16)
    IN  IF ~(dateOk /\ timeOk) THEN NaNDate
        ELSE LET y  == ParseInt(SubSeq(s, 1, 4))
                 mo == ParseInt(SubSeq(s, 6, 7))
                 d  == ParseInt(SubSeq(s, 9, 10))
                 h  == IF Len(s) = 16 THEN ParseInt(SubSeq(s, 12, 13)) ELSE 0
                 mi == IF Len(s) = 16 THEN ParseInt(SubSeq(s, 15, 16)) ELSE 0
             IN  IF /\ mo \in 1..12
                    /\ d >= 1 /\ d <= DaysInMonth(y, mo - 1)
                    /\ h \in 0..23 /\ mi \in 0..59
                 THEN <<(DayFromYearMonth(y, mo - 1) + d - 1) * MinutesPerDay + h * 60 + mi>>
                 ELSE NaNDate

\* The pattern branch shared by the three copies of the date parser.
HasPattern(dateStr) == \E i \in DOMAIN dateStr : MatchesAt(dateStr, i)

PatternDate(dateStr) ==
    LET i == CHOOSE k \in DOMAIN dateStr :
                MatchesAt(dateStr, k) /\ \A l \in 1..(k - 1) : ~MatchesAt(dateStr, l)
        j == SkipSpaces(dateStr, i + 11)
    IN  MakeDate(ParseInt(SubSeq(dateStr, i + 7, i + 10)),
                 MonthIndex(SubSeq(dateStr, i + 3, i + 5)),
                 ParseInt(SubSeq(dateStr, i, i + 1)),
                 ParseInt(SubSeq(dateStr, j, j + 1)),
                 ParseInt(SubSeq(dateStr, j + 3, j + 4)))

\* parseBankingDate local to saveOrMergeProfileData: an unparseable string
\* stays an Invalid Date.
mergeParseBankingDate(dateStr) ==
    IF HasPattern(dateStr) THEN PatternDate(dateStr) ELSE NewDateFromString(dateStr)

\* parseBankingDate of the dashboard: an unparseable string becomes new Date(0).
parseBankingDate(dateStr) ==
    IF HasPattern(dateStr) THEN PatternDate(dateStr)
    ELSE LET fallback == NewDateFromString(dateStr)
         IN  IF IsNaN(fallback) THEN EpochDate ELSE fallback

\* ------------------------------------------------------------------------
\* BankingCSVParser
\* ------------------------------------------------------------------------

HTransactionID == <<"T", "r", "a", "n", "s", "a", "c", "t", "i", "o", "n", "I", "D">>

HFrom == <<"F", "r", "o", "m">>

HRouting == <<"R", "o", "u", "t", "i", "n", "g">>

HReason == <<"R", "e", "a", "s", "o", "n">>

HBalance == <<"B", "a", "l", "a", "n", "c", "e">>

HDate == <<"D", "a", "t", "e">>

\* a || b for strings
OrElse(a, b) == IF a # <<>> THEN a ELSE b

HAmount == <<"A", "m", "o", "u", "n", "t">>

parseTransactions(csvTable) ==
    [k \in DOMAIN csvTable.rows |->
        LET row == csvTable.rows[k]
        IN  [transactionId |-> OrElse(RowGet(row, HTransactionID), RowGet(row, <<>>)),
             from          |-> RowGet(row, HFrom),
             routing       |-> RowGet(row, HRouting),
             reason        |-> RowGet(row, HReason),
             amount        |-> parseAmount(RowGet(row, HAmount)),
             balance       |-> RowGet(row, HBalance),
             date          |-> RowGet(row, HDate),
             rawRow        |-> row]]

\* transactions.reduce((sum, transaction) => sum + transaction.amount, 0)
RECURSIVE SumAmountsFrom(_, _, _)
SumAmountsFrom(transactions, i, sum) ==
    IF i > Len(transactions) THEN sum
    ELSE SumAmountsFrom(transactions, i + 1, NumAdd(sum, transactions[i].amount))

calculateTotalAmount(transactions) == SumAmountsFrom(transactions, 1, Zero)

\* calculateAverageAmount without the guard for an empty list
calculateAverageAmountUnguarded(transactions) ==
    NumDivInt(calculateTotalAmount(transactions), Len(transactions))

calculateAverageAmount(transactions) ==
    IF Len(transactions) = 0 THEN Zero
    ELSE NumDivInt(calculateTotalAmount(transactions), Len(transactions))

\* parseDate of the banking parser: the same pattern and the same fallback
\* as the merge's parser
parseDate(dateStr) == mergeParseBankingDate(dateStr)

\* The comparator of getDateRange is consistent when every date parses;
\* with an Invalid Date it returns NaN and the order the sort leaves is up
\* to the engine, so any date may come first and any date last.
\* parsed[i] is parseDate(dates[i])
DateRangeOf(dates, parsed) ==
    IF Len(dates) = 0
    THEN {[start |-> <<>>, end |-> <<>>]}
    ELSE IF \E i \in DOMAIN dates : IsNaN(parsed[i])
    THEN {[start |-> dates[i], end |-> dates[j]] : i, j \in DOMAIN dates}
    ELSE {[start |-> dates[CHOOSE i \in DOMAIN dates : \A j \in DOMAIN dates :
                               \/ GetTime(parsed[i]) < GetTime(parsed[j])
                               \/ GetTime(parsed[i]) = GetTime(parsed[j]) /\ i <= j],
           end   |-> dates[CHOOSE i \in DOMAIN dates : \A j \in DOMAIN dates :
                               \/ GetTime(parsed[i]) > GetTime(parsed[j])
                               \/ GetTime(parsed[i]) = GetTime(parsed[j]) /\ i >= j]]}

\* dates holds the dates that are not empty
DateRangeAmong(dates) == DateRangeOf(dates, [i \in DOMAIN dates |-> parseDate(dates[i])])

getDateRange(transactions) ==
    DateRangeAmong(SelectSeq([i \in DOMAIN transactions |-> transactions[i].date],
                             LAMBDA d : d # <<>>))

\* SummaryFrom that adds the amount, not its absolute value, to withdrawals
RECURSIVE SummaryFromSigned(_, _, _, _)
SummaryFromSigned(transactions, i, deposits, withdrawals) ==
    IF i > Len(transactions)
    THEN [deposits |-> deposits, withdrawals |-> withdrawals,
          netChange |-> NumSub(deposits, withdrawals)]
    ELSE IF NumPositive(transactions[i].amount)
         THEN SummaryFromSigned(transactions, i + 1, NumAdd(deposits, transactions[i].amount),
                                withdrawals)
         ELSE SummaryFromSigned(transactions, i + 1, deposits,
                                NumAdd(withdrawals, transactions[i].amount))

\* the forEach of calculateSummary from index i on
RECURSIVE SummaryFrom(_, _, _, _)
SummaryFrom(transactions, i, deposits, withdrawals) ==
    IF i > Len(transactions)
    THEN [deposits |-> deposits, withdrawals |-> withdrawals,
          netChange |-> NumSub(deposits, withdrawals)]
    ELSE IF NumPositive(transactions[i].amount)
         THEN SummaryFrom(transactions, i + 1, NumAdd(deposits, transactions[i].amount), withdrawals)
         ELSE SummaryFrom(transactions, i + 1, deposits,
                          NumAdd(withdrawals, NumAbs(transactions[i].amount)))

calculateSummary(transactions) == SummaryFrom(transactions, 1, Zero, Zero)

\* the BankingCSVTable of the transactions; dateRange holds every value
\* getDateRange can return
BankingCSVTable(transactions) ==
    [transactions      |-> transactions,
     totalTransactions |-> Len(transactions),
     totalAmount       |-> calculateTotalAmount(transactions),
     averageAmount     |-> calculateAverageAmount(transactions),
     dateRange         |-> getDateRange(transactions),
     summary           |-> calculateSummary(transactions)]

parseBankingData(csvContent) == BankingCSVTable(parseTransactions(parse(csvContent)))

\* getTransactionsByType with <= for the withdrawals
getTransactionsByTypeInclusive(table, type) ==
    IF type = "deposits"
    THEN SelectSeq(table.transactions, LAMBDA t : NumPositive(t.amount))
    ELSE IF type = "withdrawals"
    THEN SelectSeq(table.transactions, LAMBDA t : ~t.amount.nan /\ ~NumPositive(t.amount))
    ELSE table.transactions

getTransactionsByType(table, type) ==
    IF type = "deposits"
    THEN SelectSeq(table.transactions, LAMBDA t : NumPositive(t.amount))
    ELSE IF type = "withdrawals"
    THEN SelectSeq(table.transactions, LAMBDA t : NumNegative(t.amount))
    ELSE table.transactions

\* the day of a valid date, counted from 1970-01-01
DayOf(d) == GetTime(d) \div MinutesPerDay

\* Date.prototype.getFullYear of a valid date of the years 1900 to 2100
GetFullYear(d) ==
    CHOOSE y \in 1900..2100 :
        DayFromYearMonth(y, 0) <= DayOf(d) /\ DayOf(d) < DayFromYearMonth(y + 1, 0)

\* Date.prototype.getMonth of a valid date
GetMonth(d) ==
    CHOOSE m0 \in 0..11 :
        /\ DayFromYearMonth(GetFullYear(d), m0) <= DayOf(d)
        /\ DayOf(d) < DayFromYearMonth(GetFullYear(d), m0) + DaysInMonth(GetFullYear(d), m0)

\* String.prototype.padStart(2, '0')
PadStart2(str) == IF Len(str) < 2 THEN [i \in 1..(2 - Len(str)) |-> "0"] \o str ELSE str

\* `${date.getFullYear()}-${String(date.getMonth() + 1).padStart(2, '0')}`:
\* both numbers of an Invalid Date are NaN
MonthKey(date) ==
    IF IsNaN(date) THEN <<"N", "a", "N", "-", "N", "a", "N">>
    ELSE IntToStr(GetFullYear(date)) \o <<"-">> \o PadStart2(IntToStr(GetMonth(date) + 1))

EmptyBucket == [count |-> 0, total |-> Zero, deposits |-> Zero, withdrawals |-> Zero]

\* the bucket after one more transaction amount
BucketPlus(bucket, amount) ==
    [count       |-> bucket.count + 1,
     total       |-> NumAdd(bucket.total, amount),
     deposits    |-> IF NumPositive(amount) THEN NumAdd(bucket.deposits, amount)
                     ELSE bucket.deposits,
     withdrawals |-> IF NumPositive(amount) THEN bucket.withdrawals
                     ELSE NumAdd(bucket.withdrawals, NumAbs(amount))]

\* the body of the forEach callback of getMonthlySummary
MonthlyPlus(monthly, monthKey, amount) ==
    [key \in DOMAIN monthly \cup {monthKey} |->
        IF key = monthKey
        THEN BucketPlus(IF monthKey \in DOMAIN monthly THEN monthly[monthKey] ELSE EmptyBucket,
                        amount)
        ELSE monthly[key]]

\* the forEach of getMonthlySummary from index i on
RECURSIVE MonthlyFrom(_, _, _)
MonthlyFrom(transactions, i, monthly) ==
    IF i > Len(transactions) THEN monthly
    ELSE MonthlyFrom(transactions, i + 1,
                     MonthlyPlus(monthly, MonthKey(parseDate(transactions[i].date)),
                                 transactions[i].amount))

\* the object returned, as a function from month keys to buckets
getMonthlySummary(table) == MonthlyFrom(table.transactions, 1, [key \in {} |-> EmptyBucket])

\* ------------------------------------------------------------------------
\* Bounds and inputs
\* ------------------------------------------------------------------------

\* Largest clock value: every operation that reads the clock advances it.
MaxNow == 3

\* Largest number of profiles in the list.
MaxProfiles == 2

\* Largest number of transactions of a dashboard input.
MaxTx == 3

Names == {"A", "B"}

Date(dd, mon, yyyy, hh, mm) == dd \o <<"/">> \o mon \o <<"/">> \o yyyy \o <<" ">> \o hh \o <<":">> \o mm

Aug7(hh, mm) == Date(<<"0", "7">>, <<"A", "u", "g">>, <<"2", "0", "2", "5">>, hh, mm)

D1000 == Aug7(<<"1", "0">>, <<"0", "0">>)

D1030 == Aug7(<<"1", "0">>, <<"3", "0">>)

D1130 == Aug7(<<"1", "1">>, <<"3", "0">>)

D1300 == Aug7(<<"1", "3">>, <<"0", "0">>)

D1900 == Aug7(<<"1", "9">>, <<"0", "0">>)

D2000 == Aug7(<<"2", "0">>, <<"0", "0">>)

D2100 == Aug7(<<"2", "1">>, <<"0", "0">>)

D2200 == Aug7(<<"2", "2">>, <<"0", "0">>)

\* dates before 1970
D1965 == Date(<<"0", "1">>, <<"J", "a", "n">>, <<"1", "9", "6", "5">>, <<"1", "0">>, <<"0", "0">>)

D1969 == Date(<<"0", "1">>, <<"J", "a", "n">>, <<"1", "9", "6", "9">>, <<"1", "0">>, <<"0", "0">>)

\* a date only the generic fallback parses
DIso == <<"2", "0", "2", "5", "-", "0", "8", "-", "0", "8">>

\* a date nothing parses
DBad == <<"s", "o", "o", "n">>

Pay == <<"P", "a", "y">>

Tip == <<"t", "i", "p">>

\* amounts as the bank writes them
Cents10 == <<"+", "$", "0", ".", "1", "0">>

Cents20 == <<"+", "$", "0", ".", "2", "0">>

Cents30 == <<"+", "$", "0", ".", "3", "0">>

MinusCents30 == <<"-", "$", "0", ".", "3", "0">>

Plus500 == <<"+", "$", "5", "0", "0">>

Minus2500 == <<"-", "$", "2", COMMA, "5", "0", "0">>

Dollar0 == <<"$", "0">>

Abc == <<"a", "b", "c">>

Line(fields) == Join([i \in DOMAIN fields |-> Quoted(fields[i])], <<COMMA>>)

Text(lines) == Join(lines, <<NL>>)

\* "","Reason","Date"
Header3 == Line(<< <<>>, HReason, HDate >>)

\* "","Reason": a table without a Date column
Header2 == Line(<< <<>>, HReason >>)

TxtA == Text(<<Header3, Line(<< <<"1">>, Pay, D1900 >>), Line(<< <<"2">>, Tip, D2000 >>)>>)

TxtB == Text(<<Header3, Line(<< <<"3">>, Pay, D1900 >>), Line(<< <<"4">>, Pay, D2100 >>)>>)

\* new rows out of order, one of them with a date nothing parses, one without a date
TxtC == Text(<<Header3, Line(<< <<"5">>, Pay, D2200 >>), Line(<< <<"6">>, Tip, DBad >>),
               Line(<< <<"7">>, Pay, D2100 >>), Line(<< <<"8">>, Pay, <<>> >>)>>)

\* stored rows with a date nothing parses and without a date, besides 20:00
TxtMixed == Text(<<Header3, Line(<< <<"1">>, Pay, DBad >>), Line(<< <<"2">>, Pay, D2000 >>),
                   Line(<< <<"3">>, Tip, <<>> >>)>>)

TxtOld == Text(<<Header3, Line(<< <<"1">>, Pay, D1965 >>)>>)

TxtOld2 == Text(<<Header3, Line(<< <<"2">>, Pay, D1969 >>), Line(<< <<"3">>, Pay, DIso >>)>>)

TxtNoDate == Text(<<Header2, Line(<< <<"1">>, Pay >>)>>)

\* a stored row whose Reason holds a literal quote, written as a doubled quote
TxtQuote == Text(<<Header3,
                   <<QUOTE, "1", QUOTE, COMMA, QUOTE, "a", QUOTE, QUOTE, "b", QUOTE, COMMA>> \o Quoted(D1900)>>)

\* only white space: a non-empty text without any line
TxtBlank == <<" ", NL>>

IncomingTexts == {<<>>, TxtA, TxtB, TxtC, TxtOld2, TxtBlank}

StoredTexts == {<<>>, TxtA, TxtMixed, TxtOld, TxtNoDate, TxtQuote, TxtBlank}

\* ------------------------------------------------------------------------
\* ProfileManagerService
\* ------------------------------------------------------------------------

VARIABLES
    profiles,       \* the _profiles store: sequence of Profile
    activeProfile,  \* the _activeProfile store: <<>> (null) or <<Profile>>
    stored,         \* the persisted list (loadProfiles / saveProfiles)
    initialized,    \* initialize() has completed
    now,            \* the clock, read by new Date()
    nextId,         \* source of generateId()
    last,           \* the last completed call and what it returned
    csvData,        \* the dashboard's parsed table: <<>> (null) or <<BankingCSVTable>>
    hours,          \* the last custom-summary computation of the dashboard
    csvContent,     \* the text handed to the parser
    result,         \* the last call of a parser method and what it returned
    arrays,         \* the Profile[] objects the calls in flight refer to
    profilesArray,  \* which of them the _profiles store holds (0: none in flight)
    calls           \* the calls of the service started and not awaited: their locals

vars == <<profiles, activeProfile, stored, initialized, now, nextId, last, csvData, hours,
          csvContent, result, arrays, profilesArray, calls>>

asyncVars == <<arrays, profilesArray, calls>>

\* every call runs to completion before the next one starts
NothingInFlight ==
    /\ arrays = <<>>
    /\ profilesArray = 0
    /\ calls = <<>>

parserVars == <<csvContent, result>>

mgrVars == <<profiles, activeProfile, stored, initialized, now, nextId, last>>

NoCall == [op |-> "none"]

Profile(id, name, csv, createdAt, lastActive) ==
    [id |-> id, name |-> name, csvData |-> csv, createdAt |-> createdAt, lastActive |-> lastActive]

\* { ...profile, ...updates }
Spread(profile, updates) ==
    [f \in DOMAIN profile |-> IF f \in DOMAIN updates THEN updates[f] ELSE profile[f]]

\* profiles.findIndex(p => p.id === id), 0 when there is none
FindIndex(ps, id) ==
    IF \E i \in DOMAIN ps : ps[i].id = id
    THEN CHOOSE i \in DOMAIN ps : ps[i].id = id /\ \A j \in 1..(i - 1) : ps[j].id # id
    ELSE 0

\* The state a completed updateProfile(id, updates) leaves, from the stores
\* st = [profiles, activeProfile, stored]; ok is FALSE when it throws.
updateProfile(st, id, updates) ==
    LET index == FindIndex(st.profiles, id)
    IN  IF index = 0 THEN [st EXCEPT !.ok = FALSE]
        ELSE LET ps == [st.profiles EXCEPT ![index] = Spread(st.profiles[index], updates)]
             IN  [profiles      |-> ps,
                  stored        |-> ps,
                  activeProfile |-> IF st.activeProfile # <<>> /\ st.activeProfile[1].id = id
                                    THEN <<ps[index]>> ELSE st.activeProfile,
                  ok            |-> st.ok]

Stores == [profiles |-> profiles, stored |-> stored, activeProfile |-> activeProfile, ok |-> TRUE]

SetStores(st) ==
    /\ profiles' = st.profiles
    /\ stored' = st.stored
    /\ activeProfile' = st.activeProfile

\* let latestExistingDate = new Date(0); for (const t of existing) ...
RECURSIVE LatestExistingFrom(_, _, _)
LatestExistingFrom(transactions, i, latestExistingDate) ==
    IF i > Len(transactions) THEN latestExistingDate
    ELSE IF transactions[i].date = <<>>
         THEN LatestExistingFrom(transactions, i + 1, latestExistingDate)
    ELSE LET d == mergeParseBankingDate(transactions[i].date)
         IN  IF ~IsNaN(d) /\ GetTime(d) > GetTime(latestExistingDate)
             THEN LatestExistingFrom(transactions, i + 1, d)
             ELSE LatestExistingFrom(transactions, i + 1, latestExistingDate)

LatestExistingDate(transactions) == LatestExistingFrom(transactions, 1, EpochDate)

\* IsAfter with "on or after" for "after"
IsAfterOrEqual(t, latestExistingDate) ==
    IF t.date = <<>> THEN FALSE
    ELSE LET d == mergeParseBankingDate(t.date)
         IN  ~IsNaN(d) /\ GetTime(d) >= GetTime(latestExistingDate)

\* the filter callback of incomingAfter
IsAfter(t, latestExistingDate) ==
    IF t.date = <<>> THEN FALSE
    ELSE LET d == mergeParseBankingDate(t.date)
         IN  ~IsNaN(d) /\ GetTime(d) > GetTime(latestExistingDate)

\* Array.prototype.sort, which is stable, with the comparator
\* parseBankingDate(a.date).getTime() - parseBankingDate(b.date).getTime()
InsertByDate(sorted, t) ==
    LET time(x) == GetTime(mergeParseBankingDate(x.date))
        k == Cardinality({i \in DOMAIN sorted : time(sorted[i]) <= time(t)})
    IN  SubSeq(sorted, 1, k) \o <<t>> \o SubSeq(sorted, k + 1, Len(sorted))

\* SortByDate without the sort
SortByDateUnsorted(ts) == ts

RECURSIVE SortByDate(_)
SortByDate(ts) ==
    IF ts = <<>> THEN <<>>
    ELSE InsertByDate(SortByDate(SubSeq(ts, 1, Len(ts) - 1)), ts[Len(ts)])

\* IncomingAfter without the check for an Invalid Date
IncomingAfterKeepInvalid(existingTx, incomingTx) ==
    LET latestExistingDate == LatestExistingDate(existingTx)
        invalid(t) == t.date # <<>> /\ IsNaN(mergeParseBankingDate(t.date))
    IN  SortByDate(SelectSeqIdx(incomingTx,
                                {i \in DOMAIN incomingTx : IsAfter(incomingTx[i], latestExistingDate)}, 1))
        \o SelectSeqIdx(incomingTx, {i \in DOMAIN incomingTx : invalid(incomingTx[i])}, 1)

IncomingAfter(existingTx, incomingTx) ==
    LET latestExistingDate == LatestExistingDate(existingTx)
    IN  SortByDate(SelectSeqIdx(incomingTx,
                                {i \in DOMAIN incomingTx : IsAfter(incomingTx[i], latestExistingDate)}, 1))

\* MergedTable with the new rows before the stored ones
MergedTablePrepend(existingCSV, incomingAfter) ==
    LET existingGeneric == parse(existingCSV)
        mergedRows == [i \in DOMAIN incomingAfter |-> incomingAfter[i].rawRow] \o existingGeneric.rows
    IN  [headers |-> existingGeneric.headers, rows |-> mergedRows, totalRows |-> Len(mergedRows)]

\* mergedTable of saveOrMergeProfileData
MergedTable(existingCSV, incomingAfter) ==
    LET existingGeneric == parse(existingCSV)
        mergedRows == existingGeneric.rows \o [i \in DOMAIN incomingAfter |-> incomingAfter[i].rawRow]
    IN  [headers |-> existingGeneric.headers, rows |-> mergedRows, totalRows |-> Len(mergedRows)]

\* saveOrMergeProfileData writes through updateProfile and returns a value:
\* a decision is the updates it passes and what it returns.

\* ReplaceDecision storing the parsed and re-exported text
ReplaceDecisionReexport(incomingCSV, nowIso) ==
    LET normalized == exportToCSV(parse(incomingCSV))
    IN  [updates    |-> [csvData |-> normalized, lastActive |-> nowIso],
         csvData    |-> normalized, mode |-> "replaced", addedCount |-> 0, added |-> <<>>]

\* no existing data; save as-is
ReplaceDecision(incomingCSV, nowIso) ==
    [updates    |-> [csvData |-> incomingCSV, lastActive |-> nowIso],
     csvData    |-> incomingCSV, mode |-> "replaced", addedCount |-> 0, added |-> <<>>]

\* nothing to add; keep existing CSV
KeepDecision(existingCSV, nowIso) ==
    [updates    |-> [lastActive |-> nowIso],
     csvData    |-> existingCSV, mode |-> "merged", addedCount |-> 0, added |-> <<>>]

\* build merged CSV using normalized headers and rows
AppendDecision(existingCSV, incomingAfter, nowIso) ==
    LET mergedCSV == exportToCSV(MergedTable(existingCSV, incomingAfter))
    IN  [updates    |-> [csvData |-> mergedCSV, lastActive |-> nowIso],
         csvData    |-> mergedCSV, mode |-> "merged",
         addedCount |-> Len(incomingAfter), added |-> incomingAfter]

\* the decision once incomingAfter is known
MergeOf(existingCSV, incomingAfter, nowIso) ==
    IF Len(incomingAfter) = 0
    THEN KeepDecision(existingCSV, nowIso)
    ELSE AppendDecision(existingCSV, incomingAfter, nowIso)

\* found is <<>> when getProfile returns undefined
MergeDecision(found, incomingCSV, nowIso) ==
    IF found = <<>> \/ found[1].csvData = <<>>
    THEN ReplaceDecision(incomingCSV, nowIso)
    ELSE MergeOf(found[1].csvData,
                 IncomingAfter(parseBankingData(found[1].csvData).transactions,
                               parseBankingData(incomingCSV).transactions),
                 nowIso)

\* getProfile(id)
getProfile(id) ==
    LET index == FindIndex(profiles, id)
    IN  IF index = 0 THEN <<>> ELSE <<profiles[index]>>

Tick == now < MaxNow /\ now' = now + 1

Ids == 1..MaxProfiles

\* initialize(): load the persisted list, pick the active profile
Initialize ==
    /\ ~initialized
    /\ initialized' = TRUE
    /\ profiles' = stored
    /\ activeProfile' =
          IF \E i \in DOMAIN stored : stored[i].lastActive # 0
          THEN <<stored[CHOOSE i \in DOMAIN stored :
                           /\ stored[i].lastActive # 0
                           /\ \A j \in 1..(i - 1) : stored[j].lastActive = 0]>>
          ELSE IF stored # <<>> THEN <<stored[1]>> ELSE <<>>
    /\ last' = [op |-> "initialize"]
    /\ UNCHANGED <<asyncVars, stored, now, nextId, csvData, hours, parserVars>>

AddProfile(name) ==
    /\ initialized
    /\ Len(profiles) < MaxProfiles
    /\ Tick
    /\ LET newProfile == Profile(nextId, name, <<>>, now', now')
           ps == Append(profiles, newProfile)
       IN  /\ stored' = ps
           /\ profiles' = ps
           /\ last' = [op |-> "addProfile", id |-> nextId, ok |-> TRUE]
    /\ nextId' = nextId + 1
    /\ UNCHANGED <<asyncVars, activeProfile, initialized, csvData, hours, parserVars>>

\* updateProfile as the profile panel calls it
UpdateProfile(id, name) ==
    /\ initialized
    /\ Tick
    /\ \E st \in {updateProfile(Stores, id, [name |-> name])} :
           /\ SetStores(st)
           /\ last' = [op |-> "updateProfile", id |-> id, ok |-> st.ok]
    /\ UNCHANGED <<asyncVars, initialized, nextId, csvData, hours, parserVars>>

\* deleteProfile that never touches the active profile
DeleteProfileKeepActive(id) ==
    /\ initialized
    /\ LET filteredProfiles == SelectSeq(profiles, LAMBDA p : p.id # id)
       IN  /\ stored' = filteredProfiles
           /\ profiles' = filteredProfiles
    /\ last' = [op |-> "deleteProfile", id |-> id, ok |-> TRUE]
    /\ UNCHANGED <<asyncVars, activeProfile, initialized, now, nextId, csvData, hours, parserVars>>

DeleteProfile(id) ==
    /\ initialized
    /\ LET filteredProfiles == SelectSeq(profiles, LAMBDA p : p.id # id)
       IN  /\ stored' = filteredProfiles
           /\ profiles' = filteredProfiles
           /\ activeProfile' =
                 IF activeProfile # <<>> /\ activeProfile[1].id = id
                 THEN IF filteredProfiles # <<>> THEN <<filteredProfiles[1]>> ELSE <<>>
                 ELSE activeProfile
    /\ last' = [op |-> "deleteProfile", id |-> id, ok |-> TRUE]
    /\ UNCHANGED <<asyncVars, initialized, now, nextId, csvData, hours, parserVars>>

SwitchProfile(id) ==
    /\ initialized
    /\ Tick
    /\ LET index == FindIndex(profiles, id)
       IN  IF index = 0
           THEN /\ last' = [op |-> "switchProfile", id |-> id, ok |-> FALSE]
                /\ UNCHANGED <<profiles, stored, activeProfile>>
           ELSE LET profile == profiles[index]
                    st1 == IF activeProfile # <<>>
                           THEN updateProfile(Stores, activeProfile[1].id, [lastActive |-> now'])
                           ELSE Stores
                    st2 == updateProfile(st1, id, [lastActive |-> now'])
                IN  IF ~st1.ok
                    THEN /\ last' = [op |-> "switchProfile", id |-> id, ok |-> FALSE]
                         /\ UNCHANGED <<profiles, stored, activeProfile>>
                    ELSE /\ profiles' = st2.profiles
                         /\ stored' = st2.stored
                         /\ activeProfile' = <<profile>>
                         /\ last' = [op |-> "switchProfile", id |-> id, ok |-> TRUE]
    /\ UNCHANGED <<asyncVars, initialized, nextId, csvData, hours, parserVars>>

SaveOrMergeProfileData(id, incomingCSV) ==
    /\ initialized
    /\ Tick
    /\ \E profile \in {getProfile(id)} :
       \E decision \in {MergeDecision(profile, incomingCSV, now')} :
       \E st \in {updateProfile(Stores, id, decision.updates)} :
           /\ SetStores(st)
           /\ last' = [op |-> "saveOrMergeProfileData", id |-> id, ok |-> st.ok,
                       incomingCSV |-> incomingCSV,
                       before |-> IF profile = <<>> THEN <<>> ELSE profile[1].csvData,
                       csvData |-> decision.csvData, mode |-> decision.mode,
                       addedCount |-> decision.addedCount, added |-> decision.added]
    /\ UNCHANGED <<asyncVars, initialized, nextId, csvData, hours, parserVars>>

PersistedLists ==
    {<<>>}
    \cup {<<Profile(1, "A", txt, 1, la)>> : txt \in StoredTexts, la \in {0, 1}}
    \cup {<<Profile(1, "A", TxtA, 1, 0), Profile(2, "B", <<>>, 1, 1)>>,
          <<Profile(1, "A", <<>>, 0, 1), Profile(2, "B", <<>>, 0, 2)>>}

Init ==
    /\ stored \in PersistedLists
    /\ profiles = <<>>
    /\ activeProfile = <<>>
    /\ initialized = FALSE
    /\ now = 1
    /\ nextId = Len(stored) + 1
    /\ last = NoCall
    /\ csvData = <<>>
    /\ hours = NoCall
    /\ csvContent = <<>>
    /\ result = NoCall
    /\ NothingInFlight

Next ==
    \/ Initialize
    \/ \E name \in Names : AddProfile(name)
    \/ \E id \in Ids, name \in Names : UpdateProfile(id, name)
    \/ \E id \in Ids : DeleteProfile(id)
    \/ \E id \in Ids : SwitchProfile(id)
    \/ \E id \in Ids, incomingCSV \in IncomingTexts : SaveOrMergeProfileData(id, incomingCSV)

Spec == Init /\ [][Next]_vars

\* ------------------------------------------------------------------------
\* ProfileManagerService: calls in flight
\*
\* The profile panel starts addProfile, updateProfile, deleteProfile and
\* switchProfile without awaiting them, so several calls can be in flight.
\* A call runs from one await to the next in one step; a Profile[] is an
\* object shared by every call that got it from the store.
\* ------------------------------------------------------------------------

MaxCalls == 2

\* the locals of a call that has just been started
Call(op, id) ==
    [op |-> op, id |-> id, pc |-> "start",
     profiles         |-> 0,      \* const profiles = await this.getProfilesArray()
     filteredProfiles |-> 0,      \* deleteProfile: the filtered array
     newProfile       |-> <<>>,   \* addProfile: the profile to push
     target           |-> 0,      \* updateProfile: its id argument
     updates          |-> <<>>,   \* updateProfile: its updates argument
     index            |-> 0,      \* updateProfile: findIndex
     active           |-> <<>>,   \* what getActiveProfileArray resolved with
     profile          |-> <<>>,   \* switchProfile: profiles.find
     second           |-> FALSE]  \* switchProfile: the second updateProfile is running

\* this.updateProfile(id, updates) up to its first await: getProfilesArray
\* resolves with the array the store holds at that moment
CallUpdateProfile(c, id, updates) ==
    [c EXCEPT !.target = id, !.updates = <<updates>>, !.profiles = profilesArray,
              !.index = 0, !.pc = "update"]

InFlight(k, op, pc) ==
    /\ k \in DOMAIN calls
    /\ calls[k].op \in op
    /\ calls[k].pc = pc

\* what the stores hold follows the array of _profiles
Continue(k, c, as, pa) ==
    /\ calls' = [calls EXCEPT ![k] = c]
    /\ arrays' = as
    /\ profilesArray' = pa
    /\ profiles' = as[pa]

Started(c) ==
    /\ Len(calls) < MaxCalls
    /\ calls' = Append(calls, c)
    /\ UNCHANGED <<arrays, profilesArray, profiles, activeProfile, stored>>

StartUpdateProfile(id, name) ==
    /\ Started(CallUpdateProfile(Call("updateProfile", id), id, [name |-> name]))
    /\ UNCHANGED <<initialized, now, nextId, last, csvData, hours, parserVars>>

StartSaveOrMergeProfileData(id, incomingCSV) ==
    /\ \E decision \in {MergeDecision(getProfile(id), incomingCSV, now)} :
          Started(CallUpdateProfile(Call("saveOrMergeProfileData", id), id, decision.updates))
    /\ UNCHANGED <<initialized, now, nextId, last, csvData, hours, parserVars>>

StartAddProfile(name) ==
    /\ Started([Call("addProfile", nextId) EXCEPT
                   !.newProfile = <<Profile(nextId, name, <<>>, now, now)>>,
                   !.profiles = profilesArray, !.pc = "push"])
    /\ nextId' = nextId + 1
    /\ UNCHANGED <<initialized, now, last, csvData, hours, parserVars>>

StartDeleteProfile(id) ==
    /\ Started([Call("deleteProfile", id) EXCEPT !.profiles = profilesArray, !.pc = "filter"])
    /\ UNCHANGED <<initialized, now, nextId, last, csvData, hours, parserVars>>

StartSwitchProfile(id) ==
    /\ Started([Call("switchProfile", id) EXCEPT !.profiles = profilesArray, !.pc = "find"])
    /\ UNCHANGED <<initialized, now, nextId, last, csvData, hours, parserVars>>

\* updateProfile from findIndex to the call of saveProfilesArray; the error
\* it throws ends the call that awaits it
UpdateFind(k) ==
    /\ InFlight(k, {"updateProfile", "saveOrMergeProfileData", "switchProfile"}, "update")
    /\ LET c == calls[k]
           index == FindIndex(arrays[c.profiles], c.target)
       IN  IF index = 0
           THEN Continue(k, [c EXCEPT !.pc = "failed"], arrays, profilesArray)
           ELSE Continue(k, [c EXCEPT !.index = index, !.pc = "save"],
                         [arrays EXCEPT ![c.profiles][index] =
                              Spread(arrays[c.profiles][index], c.updates[1])],
                         profilesArray)
    /\ UNCHANGED <<activeProfile, stored>>
    /\ UNCHANGED <<initialized, now, nextId, last, csvData, hours, parserVars>>

\* the array a call hands to saveProfilesArray
Saved(c) == IF c.op = "deleteProfile" THEN c.filteredProfiles ELSE c.profiles

\* saveProfiles writes the list
SaveProfiles(k) ==
    /\ InFlight(k, {"updateProfile", "saveOrMergeProfileData", "switchProfile",
                    "deleteProfile", "addProfile"}, "save")
    /\ stored' = arrays[Saved(calls[k])]
    /\ Continue(k, [calls[k] EXCEPT !.pc = "set"], arrays, profilesArray)
    /\ UNCHANGED activeProfile
    /\ UNCHANGED <<initialized, now, nextId, last, csvData, hours, parserVars>>

\* updateProfile: this._profiles.set(profiles), up to getActiveProfileArray
UpdateSet(k) ==
    /\ InFlight(k, {"updateProfile", "saveOrMergeProfileData", "switchProfile"}, "set")
    /\ Continue(k, [calls[k] EXCEPT !.active = activeProfile, !.pc = "active"],
                arrays, calls[k].profiles)
    /\ UNCHANGED <<activeProfile, stored>>
    /\ UNCHANGED <<initialized, now, nextId, last, csvData, hours, parserVars>>

\* updateProfile: update the active profile if it is the one being updated
UpdateActive(k) ==
    /\ InFlight(k, {"updateProfile", "saveOrMergeProfileData", "switchProfile"}, "active")
    /\ LET c == calls[k]
       IN  /\ activeProfile' = IF c.active # <<>> /\ c.active[1].id = c.target
                               THEN <<arrays[c.profiles][c.index]>>
                               ELSE activeProfile
           /\ Continue(k, [c EXCEPT !.pc = IF c.op = "switchProfile" THEN "updated" ELSE "done"],
                       arrays, profilesArray)
    /\ UNCHANGED stored
    /\ UNCHANGED <<initialized, now, nextId, last, csvData, hours, parserVars>>

\* addProfile: profiles.push(newProfile), up to saveProfilesArray
AddPush(k) ==
    /\ InFlight(k, {"addProfile"}, "push")
    /\ LET c == calls[k]
       IN  Continue(k, [c EXCEPT !.pc = "save"],
                    [arrays EXCEPT ![c.profiles] = Append(arrays[c.profiles], c.newProfile[1])],
                    profilesArray)
    /\ UNCHANGED <<activeProfile, stored>>
    /\ UNCHANGED <<initialized, now, nextId, last, csvData, hours, parserVars>>

\* addProfile: this._profiles.set(profiles)
AddSet(k) ==
    /\ InFlight(k, {"addProfile"}, "set")
    /\ Continue(k, [calls[k] EXCEPT !.pc = "done"], arrays, calls[k].profiles)
    /\ UNCHANGED <<activeProfile, stored>>
    /\ UNCHANGED <<initialized, now, nextId, last, csvData, hours, parserVars>>

\* deleteProfile: profiles.filter, up to saveProfilesArray
DeleteFilter(k) ==
    /\ InFlight(k, {"deleteProfile"}, "filter")
    /\ LET c == calls[k]
           filteredProfiles == SelectSeq(arrays[c.profiles], LAMBDA p : p.id # c.id)
       IN  Continue(k, [c EXCEPT !.filteredProfiles = Len(arrays) + 1, !.pc = "save"],
                    Append(arrays, filteredProfiles), profilesArray)
    /\ UNCHANGED <<activeProfile, stored>>
    /\ UNCHANGED <<initialized, now, nextId, last, csvData, hours, parserVars>>

\* deleteProfile: this._profiles.set(filteredProfiles), up to getActiveProfileArray
DeleteSet(k) ==
    /\ InFlight(k, {"deleteProfile"}, "set")
    /\ Continue(k, [calls[k] EXCEPT !.active = activeProfile, !.pc = "active"],
                arrays, calls[k].filteredProfiles)
    /\ UNCHANGED <<activeProfile, stored>>
    /\ UNCHANGED <<initialized, now, nextId, last, csvData, hours, parserVars>>

\* deleteProfile: if we deleted the active profile, switch to another one
DeleteActive(k) ==
    /\ InFlight(k, {"deleteProfile"}, "active")
    /\ LET c == calls[k]
           filteredProfiles == arrays[c.filteredProfiles]
       IN  /\ activeProfile' =
                 IF c.active # <<>> /\ c.active[1].id = c.id
                 THEN IF filteredProfiles # <<>> THEN <<filteredProfiles[1]>> ELSE <<>>
                 ELSE activeProfile
           /\ Continue(k, [c EXCEPT !.pc = "done"], arrays, profilesArray)
    /\ UNCHANGED stored
    /\ UNCHANGED <<initialized, now, nextId, last, csvData, hours, parserVars>>

\* switchProfile: profiles.find, up to getActiveProfileArray
SwitchFind(k) ==
    /\ InFlight(k, {"switchProfile"}, "find")
    /\ LET c == calls[k]
           index == FindIndex(arrays[c.profiles], c.id)
       IN  IF index = 0
           THEN Continue(k, [c EXCEPT !.pc = "failed"], arrays, profilesArray)
           ELSE Continue(k, [c EXCEPT !.profile = <<arrays[c.profiles][index]>>,
                                      !.active = activeProfile, !.pc = "current"],
                         arrays, profilesArray)
    /\ UNCHANGED <<activeProfile, stored>>
    /\ UNCHANGED <<initialized, now, nextId, last, csvData, hours, parserVars>>

\* switchProfile: update lastActive for the previous active profile, or go
\* on to the new one when there is none
SwitchCurrent(k) ==
    /\ InFlight(k, {"switchProfile"}, "current")
    /\ LET c == calls[k]
       IN  IF c.active # <<>>
           THEN Continue(k, CallUpdateProfile(c, c.active[1].id, [lastActive |-> now]),
                         arrays, profilesArray)
           ELSE Continue(k, CallUpdateProfile([c EXCEPT !.second = TRUE], c.id,
                                              [lastActive |-> now]),
                         arrays, profilesArray)
    /\ UNCHANGED <<activeProfile, stored>>
    /\ UNCHANGED <<initialized, now, nextId, last, csvData, hours, parserVars>>

\* switchProfile after an updateProfile has returned: the second
\* updateProfile, then this._activeProfile.set(profile)
SwitchUpdated(k) ==
    /\ InFlight(k, {"switchProfile"}, "updated")
    /\ LET c == calls[k]
       IN  IF ~c.second
           THEN /\ Continue(k, CallUpdateProfile([c EXCEPT !.second = TRUE], c.id,
                                                 [lastActive |-> now]),
                            arrays, profilesArray)
                /\ UNCHANGED activeProfile
           ELSE /\ Continue(k, [c EXCEPT !.pc = "done"], arrays, profilesArray)
                /\ activeProfile' = c.profile
    /\ UNCHANGED stored
    /\ UNCHANGED <<initialized, now, nextId, last, csvData, hours, parserVars>>

\* the active profile initialize() selects
InitiallyActive(ps) ==
    IF \E i \in DOMAIN ps : ps[i].lastActive # 0
    THEN <<ps[CHOOSE i \in DOMAIN ps :
                 /\ ps[i].lastActive # 0
                 /\ \A j \in 1..(i - 1) : ps[j].lastActive = 0]>>
    ELSE IF ps # <<>> THEN <<ps[1]>> ELSE <<>>

ConcurrentLists ==
    {<<Profile(1, "A", <<>>, 1, 1)>>,
     <<Profile(1, "A", TxtA, 1, 0), Profile(2, "B", <<>>, 1, 1)>>}

\* the stores once initialize() has completed
InitConcurrent ==
    /\ stored \in ConcurrentLists
    /\ profiles = stored
    /\ activeProfile = InitiallyActive(stored)
    /\ initialized = TRUE
    /\ now = 2
    /\ nextId = Len(stored) + 1
    /\ last = NoCall
    /\ csvData = <<>>
    /\ hours = NoCall
    /\ csvContent = <<>>
    /\ result = NoCall
    /\ arrays = <<stored>>
    /\ profilesArray = 1
    /\ calls = <<>>

Calls == 1..MaxCalls

NextConcurrent ==
    \/ \E id \in Ids : StartUpdateProfile(id, "C")
    \/ \E id \in Ids : StartSaveOrMergeProfileData(id, TxtB)
    \/ StartAddProfile("C")
    \/ \E id \in Ids : StartDeleteProfile(id)
    \/ \E id \in Ids : StartSwitchProfile(id)
    \/ \E k \in Calls : UpdateFind(k)
    \/ \E k \in Calls : SaveProfiles(k)
    \/ \E k \in Calls : UpdateSet(k)
    \/ \E k \in Calls : UpdateActive(k)
    \/ \E k \in Calls : AddPush(k)
    \/ \E k \in Calls : AddSet(k)
    \/ \E k \in Calls : DeleteFilter(k)
    \/ \E k \in Calls : DeleteSet(k)
    \/ \E k \in Calls : DeleteActive(k)
    \/ \E k \in Calls : SwitchFind(k)
    \/ \E k \in Calls : SwitchCurrent(k)
    \/ \E k \in Calls : SwitchUpdated(k)

SpecConcurrent == InitConcurrent /\ [][NextConcurrent]_vars

\* ------------------------------------------------------------------------
\* Dashboard: custom-summary filters and the session-clustering estimate
\* ------------------------------------------------------------------------

\* ONE_HOUR_MS, in minutes
ONE_HOUR == 60

normalize(str) == ToLowerCase(Trim(str))

transactionMatchesReasons(reasonText, reasons) ==
    IF Len(reasons) = 0 THEN TRUE
    ELSE \E k \in DOMAIN reasons : Includes(normalize(reasonText), normalize(reasons[k]))

\* froms is <<>> when it is undefined or empty
transactionMatchesFroms(fromText, froms) ==
    IF Len(froms) = 0 THEN TRUE
    ELSE \E k \in DOMAIN froms : Includes(normalize(fromText), normalize(froms[k]))

\* start and end are <<>> when they are undefined or empty
transactionWithinDateRange(dateStr, start, end) ==
    LET d == parseBankingDate(dateStr)
        s == NewDateFromString(start)
        e == NewDateFromString(end)
    IN  IF IsNaN(d) THEN FALSE
        ELSE IF start # <<>> /\ ~IsNaN(s) /\ GetTime(d) < GetTime(s) THEN FALSE
        ELSE IF end # <<>> /\ ~IsNaN(e) /\ GetTime(d) > GetTime(e) THEN FALSE
        ELSE TRUE

\* Array.prototype.sort((a, b) => a.getTime() - b.getTime()) on valid dates
RECURSIVE SortTimes(_)
SortTimes(ts) ==
    IF ts = <<>> THEN <<>>
    ELSE LET sorted == SortTimes(SubSeq(ts, 1, Len(ts) - 1))
             t == ts[Len(ts)]
             k == Cardinality({i \in DOMAIN sorted : sorted[i] <= t})
         IN  SubSeq(sorted, 1, k) \o <<t>> \o SubSeq(sorted, k + 1, Len(sorted))

\* the filter, map, filter, sort chain of computeHoursForReasons
Relevant(transactions, reasons, froms, dateStart, dateEnd) ==
    LET matching == SelectSeqIdx(transactions,
                        {i \in DOMAIN transactions :
                            /\ transactionMatchesReasons(transactions[i].reason, reasons)
                            /\ transactionMatchesFroms(transactions[i].from, froms)
                            /\ transactionWithinDateRange(transactions[i].date, dateStart, dateEnd)}, 1)
        dates == [i \in DOMAIN matching |-> parseBankingDate(matching[i].date)]
        valid == SelectSeqIdx(dates, {i \in DOMAIN dates : ~IsNaN(dates[i])}, 1)
    IN  SortTimes([i \in DOMAIN valid |-> GetTime(valid[i])])

\* SessionLoop without the closing of the final session
RECURSIVE SessionLoopUnclosed(_, _, _, _, _)
SessionLoopUnclosed(relevant, i, totalMs, sessionStart, lastStamp) ==
    IF i > Len(relevant)
    THEN totalMs
    ELSE LET cur == relevant[i]
             gap == cur - lastStamp
         IN  IF gap <= ONE_HOUR
             THEN SessionLoopUnclosed(relevant, i + 1, totalMs, sessionStart, cur)
             ELSE SessionLoopUnclosed(relevant, i + 1,
                                      totalMs + ((lastStamp + ONE_HOUR) - sessionStart), cur, cur)

\* the loop of computeHoursForReasons from index i on, and the closing of
\* the final session
RECURSIVE SessionLoop(_, _, _, _, _)
SessionLoop(relevant, i, totalMs, sessionStart, lastStamp) ==
    IF i > Len(relevant)
    THEN totalMs + ((lastStamp + ONE_HOUR) - sessionStart)
    ELSE LET cur == relevant[i]
             gap == cur - lastStamp
         IN  IF gap <= ONE_HOUR
             THEN SessionLoop(relevant, i + 1, totalMs, sessionStart, cur)
             ELSE SessionLoop(relevant, i + 1,
                              totalMs + ((lastStamp + ONE_HOUR) - sessionStart), cur, cur)

\* SessionTotal that takes all the timestamps for one session
SessionTotalSpan(relevant) ==
    IF Len(relevant) = 0 THEN 0
    ELSE (relevant[Len(relevant)] + ONE_HOUR) - relevant[1]

\* The worked time in minutes (the code returns it divided by one hour).
SessionTotal(relevant) ==
    IF Len(relevant) = 0 THEN 0
    ELSE SessionLoop(relevant, 2, 0, relevant[1], relevant[1])

computeHoursForReasons(table, reasons, froms, dateStart, dateEnd) ==
    IF table = <<>> THEN 0
    ELSE SessionTotal(Relevant(table[1].transactions, reasons, froms, dateStart, dateEnd))

\* the reduce of computeNetWithFilters from index i on
RECURSIVE NetFrom(_, _, _, _, _, _, _)
NetFrom(transactions, i, sum, reasons, froms, dateStart, dateEnd) ==
    IF i > Len(transactions) THEN sum
    ELSE LET t     == transactions[i]
             match == /\ transactionMatchesReasons(t.reason, reasons)
                      /\ transactionMatchesFroms(t.from, froms)
                      /\ transactionWithinDateRange(t.date, dateStart, dateEnd)
         IN  NetFrom(transactions, i + 1, IF match THEN NumAdd(sum, t.amount) ELSE sum,
                     reasons, froms, dateStart, dateEnd)

computeNetWithFilters(table, reasons, froms, dateStart, dateEnd) ==
    IF table = <<>> THEN Zero
    ELSE NetFrom(table[1].transactions, 1, Zero, reasons, froms, dateStart, dateEnd)

\* the reactive block that follows $activeProfile
LoadProfileCSV ==
    /\ initialized
    /\ activeProfile # <<>>
    /\ csvData' = IF activeProfile[1].csvData # <<>>
                  THEN <<parseBankingData(activeProfile[1].csvData)>>
                  ELSE <<>>
    /\ UNCHANGED <<asyncVars, mgrVars, hours, parserVars>>

ComputeHours(reasons, froms, dateStart, dateEnd) ==
    /\ initialized
    /\ \E relevant \in {IF csvData = <<>> THEN <<>>
                        ELSE Relevant(csvData[1].transactions, reasons, froms, dateStart, dateEnd)} :
          hours' = [op |-> "computeHoursForReasons",
                    transactions |-> IF csvData = <<>> THEN <<>> ELSE csvData[1].transactions,
                    reasons |-> reasons, froms |-> froms,
                    dateStart |-> dateStart, dateEnd |-> dateEnd,
                    relevant |-> relevant,
                    result |-> computeHoursForReasons(csvData, reasons, froms, dateStart, dateEnd)]
    /\ UNCHANGED <<asyncVars, mgrVars, csvData, parserVars>>

ComputeNet(reasons, froms, dateStart, dateEnd) ==
    /\ initialized
    /\ hours' = [op |-> "computeNetWithFilters",
                 transactions |-> IF csvData = <<>> THEN <<>> ELSE csvData[1].transactions,
                 reasons |-> reasons, froms |-> froms,
                 dateStart |-> dateStart, dateEnd |-> dateEnd,
                 result |-> computeNetWithFilters(csvData, reasons, froms, dateStart, dateEnd)]
    /\ UNCHANGED <<asyncVars, mgrVars, csvData, parserVars>>

\* Dashboard inputs
Bob == <<"B", "o", "b">>

\* "","From","Reason","Amount","Date"
Header5 == Line(<< <<>>, HFrom, HReason, HAmount, HDate >>)

DashRow(from, reason, amount, date) == Line(<< <<"1">>, from, reason, amount, date >>)

Al == <<"A", "l">>

DashRows == {DashRow(Bob, Pay, Plus500, D1000), DashRow(Bob, Pay, Minus2500, D1030),
             DashRow(Bob, Pay, Cents10, D1130), DashRow(Bob, Pay, Cents20, D1300),
             DashRow(Al, Tip, Cents30, DBad)}

RECURSIVE SeqsUpTo(_, _)
SeqsUpTo(S, n) ==
    IF n = 0 THEN {<<>>}
    ELSE LET shorter == SeqsUpTo(S, n - 1)
         IN  shorter \cup {Append(q, x) : q \in {r \in shorter : Len(r) = n - 1}, x \in S}

DashTexts == {Text(<<Header5>> \o rows) : rows \in SeqsUpTo(DashRows, MaxTx)}

\* a datetime-local value: 2025-08-07T10:30
Bound1030 == <<"2", "0", "2", "5", "-", "0", "8", "-", "0", "7", "T", "1", "0", ":", "3", "0">>

Query(reasons, froms, dateStart, dateEnd) ==
    [reasons |-> reasons, froms |-> froms, dateStart |-> dateStart, dateEnd |-> dateEnd]

\* the filters of the custom summaries that are computed
Queries == {Query(<<>>, <<>>, <<>>, <<>>),
            Query(<< <<"p", "a", "y">> >>, <<>>, <<>>, <<>>),
            Query(<<>>, << <<"b", "o">> >>, <<>>, <<>>),
            Query(<<>>, <<>>, Bound1030, <<>>),
            Query(<<>>, <<>>, <<>>, Bound1030)}

InitHours ==
    /\ stored \in {<<Profile(1, "A", txt, 1, 1)>> : txt \in DashTexts}
    /\ profiles = <<>>
    /\ activeProfile = <<>>
    /\ initialized = FALSE
    /\ now = 1
    /\ nextId = 2
    /\ last = NoCall
    /\ csvData = <<>>
    /\ hours = NoCall
    /\ csvContent = <<>>
    /\ result = NoCall
    /\ NothingInFlight

NextHours ==
    \/ Initialize
    \/ LoadProfileCSV
    \/ \E q \in Queries : ComputeHours(q.reasons, q.froms, q.dateStart, q.dateEnd)
    \/ \E q \in Queries : ComputeNet(q.reasons, q.froms, q.dateStart, q.dateEnd)

SpecHours == InitHours /\ [][NextHours]_vars

\* ------------------------------------------------------------------------
\* Dashboard: the built-in trucking and shifts hours
\* ------------------------------------------------------------------------

ReasonTrucking == <<"(", "t", "r", "u", "c", "k", "i", "n", "g", ")">>

ReasonComponents == <<"p", "u", "r", "c", "h", "a", "s", "e", " ", "o", "f", " ",
                      "c", "o", "m", "p", "o", "n", "e", "n", "t", "s">>

ReasonWorkPayment == <<"w", "o", "r", "k", " ", "p", "a", "y", "m", "e", "n", "t">>

\* the filter callback of truckingHours with includes for both reasons
IsTruckingRelatedIncludes(t) ==
    \/ Includes(ToLowerCase(Trim(t.reason)), ReasonTrucking)
    \/ Includes(ToLowerCase(Trim(t.reason)), ReasonComponents)

\* the filter callback of truckingHours
IsTruckingRelated(t) ==
    \/ Includes(ToLowerCase(Trim(t.reason)), ReasonTrucking)
    \/ ToLowerCase(Trim(t.reason)) = ReasonComponents

TimesOf(dates) == [i \in DOMAIN dates |-> GetTime(dates[i])]

\* the dates of the transactions, parsed, the invalid ones dropped, sorted
ValidTimes(matching) ==
    SortTimes(TimesOf(SelectSeq([i \in DOMAIN matching |-> parseBankingDate(matching[i].date)],
                                LAMBDA d : ~IsNaN(d))))

\* relatedDates of truckingHours, as times
RelatedDates(transactions) ==
    ValidTimes(SelectSeqIdx(transactions,
                            {i \in DOMAIN transactions : IsTruckingRelated(transactions[i])}, 1))

\* the loop of truckingHours from index i on, and the closing of the final
\* session
RECURSIVE TruckingLoop(_, _, _, _, _)
TruckingLoop(relatedDates, i, totalMs, sessionStart, lastStamp) ==
    IF i > Len(relatedDates)
    THEN totalMs + ((lastStamp + ONE_HOUR) - sessionStart)
    ELSE IF relatedDates[i] - lastStamp <= ONE_HOUR
         THEN TruckingLoop(relatedDates, i + 1, totalMs, sessionStart, relatedDates[i])
         ELSE TruckingLoop(relatedDates, i + 1,
                           totalMs + ((lastStamp + ONE_HOUR) - sessionStart),
                           relatedDates[i], relatedDates[i])

TruckingTotal(relatedDates) ==
    IF Len(relatedDates) = 0 THEN 0
    ELSE TruckingLoop(relatedDates, 2, 0, relatedDates[1], relatedDates[1])

\* The worked time in minutes (the code returns it divided by one hour).
truckingHours(table) ==
    IF table = <<>> THEN 0
    ELSE TruckingTotal(RelatedDates(table[1].transactions))

\* Each payment counts as 1 hour: the result is in hours.
shiftsHours(table) ==
    IF table = <<>> THEN 0
    ELSE Cardinality({i \in DOMAIN table[1].transactions :
                         ToLowerCase(Trim(table[1].transactions[i].reason)) = ReasonWorkPayment})

\* the reactive statement that follows csvData
TruckingHours ==
    /\ initialized
    /\ hours' = [op |-> "truckingHours",
                 transactions |-> IF csvData = <<>> THEN <<>> ELSE csvData[1].transactions,
                 result |-> truckingHours(csvData)]
    /\ UNCHANGED <<asyncVars, mgrVars, csvData, parserVars>>

ShiftsHours ==
    /\ initialized
    /\ hours' = [op |-> "shiftsHours",
                 transactions |-> IF csvData = <<>> THEN <<>> ELSE csvData[1].transactions,
                 result |-> shiftsHours(csvData)]
    /\ UNCHANGED <<asyncVars, mgrVars, csvData, parserVars>>

\* Inputs: reasons as the bank writes them
Trucking == <<"J", "o", "b", " ", "(", "T", "r", "u", "c", "k", "i", "n", "g", ")">>

Components == <<"P", "u", "r", "c", "h", "a", "s", "e", " ", "o", "f", " ",
                "C", "o", "m", "p", "o", "n", "e", "n", "t", "s">>

\* a reason that contains "purchase of components" and is longer
ComponentsTax == Components \o <<" ", "T", "a", "x">>

WorkPayment == <<" ", "W", "o", "r", "k", " ", "P", "a", "y", "m", "e", "n", "t">>

\* a reason that contains "work payment" and is longer
WorkPaymentBonus == WorkPayment \o <<" ", "B", "o", "n", "u", "s">>

LegacyRow(reason, date) == Line(<< <<"1">>, reason, date >>)

LegacyRows == {LegacyRow(Trucking, D1000), LegacyRow(Components, D1030),
               LegacyRow(ComponentsTax, D1300), LegacyRow(Trucking, DBad),
               LegacyRow(WorkPayment, D1000), LegacyRow(WorkPayment, D1030),
               LegacyRow(WorkPaymentBonus, D1300)}

LegacyTexts == {Text(<<Header3>> \o rows) : rows \in SeqsUpTo(LegacyRows, MaxTx)}

\* the fixed filters the built-in categories correspond to
TruckingReasons == <<ReasonTrucking, ReasonComponents>>

ShiftsReasons == <<ReasonWorkPayment>>

InitLegacy ==
    /\ stored \in {<<Profile(1, "A", txt, 1, 1)>> : txt \in LegacyTexts}
    /\ profiles = <<>>
    /\ activeProfile = <<>>
    /\ initialized = FALSE
    /\ now = 1
    /\ nextId = 2
    /\ last = NoCall
    /\ csvData = <<>>
    /\ hours = NoCall
    /\ csvContent = <<>>
    /\ result = NoCall
    /\ NothingInFlight

NextLegacy ==
    \/ Initialize
    \/ LoadProfileCSV
    \/ TruckingHours
    \/ ShiftsHours

SpecLegacy == InitLegacy /\ [][NextLegacy]_vars

\* ------------------------------------------------------------------------
\* The parsers called directly: CSVParser and BankingCSVParser on a text
\* ------------------------------------------------------------------------

\* Largest number of data rows of a banking text handed to the parser.
MaxRows == 3

\* the tokenizer applied to one line of the text, as parse applies it
ParseCSVLine(line) ==
    /\ result' = [op |-> "parseCSVLine", line |-> line, values |-> parseCSVLine(line)]
    /\ UNCHANGED <<asyncVars, mgrVars, csvData, hours, csvContent>>

Parse ==
    /\ result' = [op |-> "parse", table |-> parse(csvContent)]
    /\ UNCHANGED <<asyncVars, mgrVars, csvData, hours, csvContent>>

\* exportToCSV(table), and the text parsed and exported again
ExportToCSV(table) ==
    /\ \E text \in {exportToCSV(table)} :
          result' = [op |-> "exportToCSV", table |-> table, text |-> text,
                     parsed |-> parse(text), again |-> exportToCSV(parse(text))]
    /\ UNCHANGED <<asyncVars, mgrVars, csvData, hours, csvContent>>

ParseBankingData ==
    /\ result' = [op |-> "parseBankingData", table |-> parseBankingData(csvContent)]
    /\ UNCHANGED <<asyncVars, mgrVars, csvData, hours, csvContent>>

GetTransactionsByType(type) ==
    /\ \E table \in {parseBankingData(csvContent)} :
          result' = [op |-> "getTransactionsByType", type |-> type,
                     transactions |-> table.transactions,
                     returned |-> getTransactionsByType(table, type)]
    /\ UNCHANGED <<asyncVars, mgrVars, csvData, hours, csvContent>>

\* parseAmount on one amount string, as parseTransactions applies it
ParseAmount(amountStr) ==
    /\ result' = [op |-> "parseAmount", amountStr |-> amountStr, num |-> parseAmount(amountStr)]
    /\ UNCHANGED <<asyncVars, mgrVars, csvData, hours, csvContent>>

GetMonthlySummary ==
    /\ \E table \in {parseBankingData(csvContent)} :
          result' = [op |-> "getMonthlySummary", transactions |-> table.transactions,
                     monthly |-> getMonthlySummary(table)]
    /\ UNCHANGED <<asyncVars, mgrVars, csvData, hours, csvContent>>

Orders(n) == {f \in [1..n -> 1..n] : \A i, j \in 1..n : f[i] = f[j] => i = j}

\* calculateSummary on the transactions of the text, taken in the given order
CalculateSummary(order) ==
    /\ \E transactions \in {parseBankingData(csvContent).transactions} :
          /\ Len(transactions) = Len(order)
          /\ \E reordered \in {[i \in DOMAIN order |-> transactions[order[i]]]} :
                result' = [op |-> "calculateSummary", order |-> order,
                           transactions |-> reordered,
                           summary |-> calculateSummary(reordered)]
    /\ UNCHANGED <<asyncVars, mgrVars, csvData, hours, csvContent>>

\* Parser inputs
HName == <<"N", "a", "m", "e">>

\* "","From","Amount" and one data row
TxtRecover == Text(<<Line(<< <<>>, HFrom, HAmount >>),
                     Line(<< <<"1">>, <<"B", "o", "b">>, <<"+", "$", "5", "0", "0">> >>)>>)

\* Name,,Note, with a short row, a long row and values in white space
TxtRagged == Text(<< <<"N", "a", "m", "e", COMMA, COMMA, " ", "N", "o", "t", "e", COMMA, " ">>,
                     <<"a">>,
                     <<"a", COMMA, "b", COMMA, " ", "c", " ", COMMA, "d", COMMA, "e">>,
                     <<" ", " ">>,
                     <<COMMA, COMMA, COMMA>> >>)

\* the header A twice
TxtTwice == Text(<< <<"A", COMMA, "A">>, <<"1", COMMA, "2">> >>)

\* quoted commas, doubled quotes, runs of quotes, a quote that never closes
TxtQuotes == Text(<< <<"A", COMMA, "B", COMMA, "C">>,
                     <<QUOTE, "x", COMMA, "y", QUOTE, COMMA, QUOTE, "a", QUOTE, QUOTE, "b", QUOTE,
                       COMMA, "c", QUOTE, "d", QUOTE, "e">>,
                     <<QUOTE, QUOTE, QUOTE, QUOTE, COMMA, QUOTE, QUOTE, QUOTE, COMMA, "z">>,
                     <<QUOTE, QUOTE, COMMA, QUOTE, QUOTE, QUOTE, QUOTE, QUOTE, QUOTE, COMMA,
                       QUOTE, "a", COMMA, "b">>,
                     <<"p", QUOTE, QUOTE, "q", COMMA, QUOTE, "r", QUOTE, QUOTE, QUOTE, COMMA, "s", COMMA>> >>)

\* a header with a literal quote, written as a doubled quote
TxtQuotedHeader == Text(<< <<QUOTE, "a", QUOTE, QUOTE, "b", QUOTE, COMMA, QUOTE, "C", QUOTE>>,
                           <<QUOTE, "1", QUOTE, COMMA, QUOTE, "2", QUOTE>> >>)

\* texts without any line that is not blank
BlankTexts == {<<>>, <<NL, NL>>, <<" ", NL>>, <<"\r", NL, " ", "\t">>}

\* a value with a comma and an empty value, no literal quote
TxtComma == Text(<< <<"A", COMMA, QUOTE, "B", COMMA, "C", QUOTE>>,
                    <<QUOTE, "x", COMMA, "y", QUOTE, COMMA, "z">>,
                    <<QUOTE, QUOTE, COMMA, QUOTE, QUOTE>> >>)

GenericTexts == {TxtRecover, TxtRagged, TxtTwice, TxtQuotes, TxtQuotedHeader, TxtComma, TxtQuote, TxtA}

\* "","Amount"
HeaderAmount == Line(<< <<>>, HAmount >>)

AmountRow(amountStr) == Line(<< <<"1">>, amountStr >>)

\* the Amount columns of the banking texts; a text holds at most MaxRows of them
AmountLists == {<<Cents10, Cents20, Cents30, MinusCents30>>,
                <<Cents10, MinusCents30, Cents20, Dollar0>>,
                <<Plus500, Minus2500, Dollar0, Abc>>,
                <<Dollar0, Plus500, <<>>, Minus2500>>,
                <<Minus2500, Dollar0, Plus500, Cents10>>}

Min(a, b) == IF a < b THEN a ELSE b

\* amount strings outside the bank's format
AmountOddities ==
    {<<>>, <<"-">>, <<"5", "a", "b", "c">>, <<"-", "-", "5">>, <<"$", "-", "5">>,
     <<" ", "-", " ", "$", "1", COMMA, "0", "\t">>, <<"1", ".", "5", ".", "2">>,
     <<"-", ".", "5">>, <<"7", ".">>, <<"1", "e", "2">>, <<"+", "-", "2">>}

AmountStrings == {Cents10, Cents20, Cents30, MinusCents30, Plus500, Minus2500, Dollar0, Abc}
                 \cup AmountOddities

BankTexts ==
    {Text(<<HeaderAmount>> \o [i \in 1..n |-> AmountRow(l[i])]) :
        l \in AmountLists, n \in 0..Min(MaxRows, 4)}

\* "","Amount","Date"
HeaderAmountDate == Line(<< <<>>, HAmount, HDate >>)

DatedRow(amountStr, date) == Line(<< <<"1">>, amountStr, date >>)

DSep == Date(<<"0", "1">>, <<"S", "e", "p">>, <<"2", "0", "2", "5">>, <<"0", "9">>, <<"0", "0">>)

\* the rows of the dated banking texts; a text holds at most MaxRows of them
DatedLists == {<<DatedRow(Plus500, D1000), DatedRow(Minus2500, DSep),
                 DatedRow(Dollar0, D1030), DatedRow(Cents10, DSep)>>,
               <<DatedRow(Cents10, D1000), DatedRow(MinusCents30, D1030),
                 DatedRow(Cents20, D1130), DatedRow(Plus500, DSep)>>,
               <<DatedRow(Plus500, DBad), DatedRow(Minus2500, D1000),
                 DatedRow(Abc, <<>>), DatedRow(Plus500, DIso)>>}

DatedTexts ==
    {Text(<<HeaderAmountDate>> \o SubSeq(l, 1, n)) : l \in DatedLists, n \in 1..Min(MaxRows, 4)}

ParserTexts == BlankTexts \cup GenericTexts \cup BankTexts \cup DatedTexts

\* tables built by a caller and not by parse
BuiltTables ==
    {[headers |-> <<HName>>, rows |-> <<(HName :> <<" ", "x">>)>>, totalRows |-> 1],
     [headers |-> <<HName, <<>> >>, rows |-> <<(HName :> <<"x">>)>>, totalRows |-> 1]}

TransactionTypes == {"deposits", "withdrawals", "all"}

InitParser ==
    /\ stored = <<>>
    /\ profiles = <<>>
    /\ activeProfile = <<>>
    /\ initialized = FALSE
    /\ now = 1
    /\ nextId = 1
    /\ last = NoCall
    /\ csvData = <<>>
    /\ hours = NoCall
    /\ csvContent \in ParserTexts
    /\ result = NoCall
    /\ NothingInFlight

NextParser ==
    \/ \E line \in Range(SplitLines(csvContent)) : ParseCSVLine(line)
    \/ Parse
    \/ \E table \in {parse(csvContent)} \cup BuiltTables : ExportToCSV(table)
    \/ ParseBankingData
    \/ \E type \in TransactionTypes : GetTransactionsByType(type)
    \/ \E n \in 0..MaxRows : \E order \in Orders(n) : CalculateSummary(order)
    \/ \E amountStr \in AmountStrings : ParseAmount(amountStr)
    \/ GetMonthlySummary

SpecParser == InitParser /\ [][NextParser]_vars

\* ------------------------------------------------------------------------
\* bankingUtils.isValidBankingCSV and the upload handler processFile
\* ------------------------------------------------------------------------

\* String.prototype.split(','): the pieces between consecutive commas
SplitCommas(s) ==
    LET breaks == {i \in DOMAIN s : s[i] = COMMA} \cup {0, Len(s) + 1}
        starts == breaks \ {Len(s) + 1}
        upTo(n) == Cardinality({b \in starts : b < n})
    IN  [k \in 1..Cardinality(starts) |->
            LET b == CHOOSE x \in starts : upTo(x) = k - 1
                e == CHOOSE x \in breaks : x > b /\ \A y \in breaks : y > b => x <= y
            IN  SubSeq(s, b + 1, e - 1)]

\* h.replace(/"/g, '').trim()
HeaderName(h) == Trim(SelectSeq(h, LAMBDA c : c # QUOTE))

\* headers.some(h => h.toLowerCase().includes(word))
SomeIncludes(headers, word) ==
    \E i \in DOMAIN headers : Includes(ToLowerCase(headers[i]), word)

expectedHeaders == << <<>>, HFrom, HRouting, HReason, HAmount, HBalance, HDate >>

\* the checks on the first line
ValidHeaders(headers) ==
    IF Len(headers) # Len(expectedHeaders) THEN FALSE
    ELSE /\ SomeIncludes(headers, ToLowerCase(HFrom))
         /\ SomeIncludes(headers, ToLowerCase(HAmount))
         /\ SomeIncludes(headers, ToLowerCase(HDate))

\* firstLine.split(',').map(...)
HeaderNames(pieces) == [i \in DOMAIN pieces |-> HeaderName(pieces[i])]

ValidLines(lines) ==
    IF Len(lines) < 2 THEN FALSE
    ELSE ValidHeaders(HeaderNames(SplitCommas(lines[1])))

\* isValidBankingCSV that accepts every content
isValidBankingCSVAny(content) == TRUE

isValidBankingCSV(content) ==
    ValidLines(SelectSeq(SplitLines(content), LAMBDA line : Trim(line) # <<>>))

DotCsv == <<".", "c", "s", "v">>

\* String.prototype.endsWith
EndsWith(s, suffix) ==
    Len(s) >= Len(suffix) /\ SubSeq(s, Len(s) - Len(suffix) + 1, Len(s)) = suffix

\* dispatch('csvError', ...) before anything is saved
Refused(name, content, error) ==
    /\ last' = [op |-> "processFile", name |-> name, content |-> content,
                dispatched |-> "csvError", error |-> error, saved |-> FALSE]
    /\ UNCHANGED <<profiles, stored, activeProfile, now>>

\* from the call of saveOrMergeProfileData to the dispatch
Uploaded(name, content, st) ==
    /\ SetStores(st)
    /\ last' = [op |-> "processFile", name |-> name, content |-> content,
                dispatched |-> IF st.ok THEN "csvUploaded" ELSE "csvError",
                error |-> IF st.ok THEN "" ELSE "not found", saved |-> TRUE]

\* processFile(file), file.name and the text of the file given
ProcessFile(name, content) ==
    /\ initialized
    /\ IF activeProfile = <<>>
       THEN Refused(name, content, "No active profile. Please create or select a profile first.")
       ELSE IF ~EndsWith(ToLowerCase(name), DotCsv)
       THEN Refused(name, content, "Please select a CSV file.")
       ELSE IF ~isValidBankingCSV(content)
       THEN Refused(name, content, "Invalid banking CSV format. Please check your file structure.")
       ELSE /\ Tick
            /\ Uploaded(name, content,
                        updateProfile(Stores, activeProfile[1].id,
                                      MergeDecision(getProfile(activeProfile[1].id),
                                                    content, now').updates))
    /\ UNCHANGED <<asyncVars, initialized, nextId, csvData, hours, parserVars>>

\* Upload inputs

Header7 == Line(expectedHeaders)

Row7(n, date) == Line(<< <<n>>, Bob, <<>>, Pay, <<>>, <<>>, date >>)

Upload1 == Text(<<Header7, Row7("1", D1000)>>)

Upload2 == Text(<<Header7, Row7("2", D1900)>>)

UploadHeaderOnly == Text(<<Header7, <<" ">>, <<>> >>)

UploadFive == Text(<<Header5, DashRow(Bob, Pay, Plus500, D1900)>>)

UploadNoFrom ==
    Text(<<Line(<< <<>>, HName, HRouting, HReason, HAmount, HBalance, HDate >>), Row7("2", D1900)>>)

UploadNoDate ==
    Text(<<Line(<< <<>>, HFrom, HRouting, HReason, HAmount, HBalance, HName >>), Row7("2", D1900)>>)

\* headers that only contain the words, in another case and without quotes
UploadLoose ==
    Text(<< <<"x", COMMA, "F", "R", "O", "M", "s", COMMA, COMMA, COMMA, "a", "m", "o", "u", "n", "t",
              COMMA, COMMA, " ", "u", "p", "d", "a", "t", "e", "d", " ">>,
           <<"1", COMMA, COMMA, COMMA, COMMA, COMMA, COMMA>> >>)

\* seven columns for the parser, eight pieces for split(',')
UploadCommaInHeader ==
    Text(<<Line(<< <<>>, HFrom, HRouting, HReason, HAmount, <<"B", COMMA, "a", "l">>, HDate >>),
           Row7("2", D1900)>>)

UploadTexts ==
    {<<>>, Upload2, UploadHeaderOnly, UploadFive, UploadNoFrom, UploadNoDate, UploadLoose,
     UploadCommaInHeader}

FileNames ==
    {<<"A", ".", "C", "s", "V">>, <<"c", "s", "v">>,
     <<"a", ".", "c", "s", "v", ".", "t", "x", "t">>}

UploadLists ==
    {<<>>, <<Profile(1, "A", <<>>, 1, 1)>>, <<Profile(1, "A", Upload1, 1, 1)>>}

InitUpload ==
    /\ stored \in UploadLists
    /\ profiles = <<>>
    /\ activeProfile = <<>>
    /\ initialized = FALSE
    /\ now = 1
    /\ nextId = Len(stored) + 1
    /\ last = NoCall
    /\ csvData = <<>>
    /\ hours = NoCall
    /\ csvContent = <<>>
    /\ result = NoCall
    /\ NothingInFlight

NextUpload ==
    \/ Initialize
    \/ \E id \in Ids : DeleteProfile(id)
    \/ \E name \in FileNames, content \in UploadTexts : ProcessFile(name, content)

SpecUpload == InitUpload /\ [][NextUpload]_vars

\* ------------------------------------------------------------------------
\* Properties of saveOrMergeProfileData
\* ------------------------------------------------------------------------

\* the last completed call is a saveOrMergeProfileData that returned
MergeCall == last.op = "saveOrMergeProfileData" /\ last.ok

\* ... on a profile that had CSV text
HadData == MergeCall /\ last.before # <<>>

CsvOf(ps, id) == ps[FindIndex(ps, id)].csvData

ExistingTx == parseTransactions(parse(last.before))

IncomingTx == parseTransactions(parse(last.incomingCSV))

\* the date is present and the merge's date parser yields a valid instant
Parseable(dateStr) == dateStr # <<>> /\ ~IsNaN(mergeParseBankingDate(dateStr))

TimeOf(dateStr) == GetTime(mergeParseBankingDate(dateStr))

ParsedTimes(transactions) ==
    {TimeOf(transactions[i].date) : i \in {j \in DOMAIN transactions : Parseable(transactions[j].date)}}

MaxOf(S) == CHOOSE x \in S : \A y \in S : y <= x

IsPrefix(p, q) == Len(p) <= Len(q) /\ SubSeq(q, 1, Len(p)) = p

\* C1: on a profile with CSV text the call selects exactly the incoming
\* transactions whose parsed date is strictly greater than the maximum
\* successfully parsed date among the existing transactions.
C1_SelectsStrictlyAfterMaxExisting ==
    (HadData /\ ParsedTimes(ExistingTx) # {}) =>
        LET cutoff == MaxOf(ParsedTimes(ExistingTx))
            newer  == {i \in DOMAIN IncomingTx :
                          Parseable(IncomingTx[i].date) /\ TimeOf(IncomingTx[i].date) > cutoff}
        IN  /\ last.mode = "merged"
            /\ last.addedCount = Cardinality(newer)
            /\ Range(last.added) = {IncomingTx[i] : i \in newer}

\* C2: when the selection is not empty the merged text is the export of the
\* existing headers with the existing rows in their order followed by the
\* source rows of the selected transactions in ascending date order; the
\* mode is "merged" and addedCount is the size of the selection.
C2_MergedTextIsExistingThenSelected ==
    (HadData /\ last.added # <<>>) =>
        LET existing == parse(last.before)
            cutoff   == GetTime(LatestExistingDate(ExistingTx))
            selected == {i \in DOMAIN IncomingTx :
                            Parseable(IncomingTx[i].date) /\ TimeOf(IncomingTx[i].date) > cutoff}
            lineOf(row) == Join([i \in DOMAIN existing.headers |->
                                    Quoted(RowGet(row, existing.headers[i]))], <<COMMA>>)
            expected == << Join([i \in DOMAIN existing.headers |-> Quoted(existing.headers[i])], <<COMMA>>) >>
                        \o [r \in DOMAIN existing.rows |-> lineOf(existing.rows[r])]
                        \o [k \in DOMAIN last.added |-> lineOf(last.added[k].rawRow)]
        IN  /\ last.mode = "merged"
            /\ last.addedCount = Cardinality(selected)
            /\ Len(last.added) = Cardinality(selected)
            /\ Range(last.added) = {IncomingTx[i] : i \in selected}
            /\ \A i, j \in DOMAIN last.added :
                  i < j => TimeOf(last.added[i].date) <= TimeOf(last.added[j].date)
            /\ last.csvData = Join(expected, <<NL>>)
            /\ CsvOf(profiles, last.id) = last.csvData

\* a merge that appended two rows the incoming text lists in the other order
C2_Witness ==
    /\ HadData
    /\ Len(last.added) = 2
    /\ last.added[1].transactionId = <<"7">>
    /\ last.added[2].transactionId = <<"5">>

\* C3: without existing CSV text the incoming text is stored verbatim, and
\* the call returns it with mode "replaced" and addedCount 0.
C3_NoExistingStoresVerbatim ==
    (MergeCall /\ last.before = <<>>) =>
        /\ last.mode = "replaced"
        /\ last.addedCount = 0
        /\ last.csvData = last.incomingCSV
        /\ CsvOf(profiles, last.id) = last.incomingCSV
        /\ CsvOf(stored, last.id) = last.incomingCSV

C3_Witness ==
    /\ MergeCall
    /\ last.before = <<>>
    /\ last.incomingCSV = TxtA
    /\ CsvOf(profiles, last.id) = TxtA

\* C4: when no incoming transaction is dated strictly after the cutoff the
\* stored text is unchanged and returned with mode "merged" and addedCount 0.
C4_NothingNewKeepsText ==
    (/\ HadData
     /\ \A i \in DOMAIN IncomingTx :
           Parseable(IncomingTx[i].date) =>
              /\ ParsedTimes(ExistingTx) # {}
              /\ TimeOf(IncomingTx[i].date) <= MaxOf(ParsedTimes(ExistingTx)))
    => /\ last.mode = "merged"
       /\ last.addedCount = 0
       /\ last.csvData = last.before
       /\ CsvOf(profiles, last.id) = last.before
       /\ CsvOf(stored, last.id) = last.before

\* incoming rows dated at and before the stored maximum, none after it
C4_Witness ==
    /\ HadData
    /\ last.before = TxtA
    /\ last.incomingCSV = TxtA
    /\ last.addedCount = 0

\* C5: a saveOrMergeProfileData call directly after a completed call with the
\* same profile and the same incoming text adds nothing and leaves the
\* stored text as the first call left it.
C5_DuplicateIngestionIsNoOp ==
    [][(/\ MergeCall
        /\ now' # now
        /\ last'.op = "saveOrMergeProfileData"
        /\ last'.ok
        /\ last'.id = last.id
        /\ last'.incomingCSV = last.incomingCSV)
       => /\ last'.addedCount = 0
          /\ CsvOf(profiles', last.id) = CsvOf(profiles, last.id)]_vars

NoLiteralQuote(table) ==
    /\ \A i \in DOMAIN table.headers : QUOTE \notin Range(table.headers[i])
    /\ \A r \in DOMAIN table.rows : \A h \in DOMAIN table.rows[r] :
          QUOTE \notin Range(table.rows[r][h])

\* C6 as stated: the rows parsed from the stored text before a call on a
\* profile with data are a prefix of the rows parsed from the stored text
\* after it.
C6_AppendOnly ==
    HadData => IsPrefix(parse(last.before).rows, parse(CsvOf(profiles, last.id)).rows)

\* C6 amended: the same, for stored tables of which no header and no value
\* holds a literal double quote.
C6_AppendOnlyWithoutQuotes ==
    (HadData /\ NoLiteralQuote(parse(last.before))) =>
        /\ parse(CsvOf(profiles, last.id)).headers = parse(last.before).headers
        /\ IsPrefix(parse(last.before).rows, parse(CsvOf(profiles, last.id)).rows)

\* rows were appended to a stored table that had rows
C6_Witness ==
    /\ HadData
    /\ NoLiteralQuote(parse(last.before))
    /\ last.addedCount > 0
    /\ Len(parse(last.before).rows) > 0
    /\ Len(parse(CsvOf(profiles, last.id)).rows) > Len(parse(last.before).rows)

\* C7: when no existing transaction has a parseable date, every incoming
\* transaction with a parseable date is selected, whatever the date.
C7_NoExistingDateSelectsEveryDated ==
    (HadData /\ ParsedTimes(ExistingTx) = {}) =>
        LET dated == {i \in DOMAIN IncomingTx : Parseable(IncomingTx[i].date)}
        IN  /\ last.addedCount = Cardinality(dated)
            /\ Range(last.added) = {IncomingTx[i] : i \in dated}

\* C8: an incoming row without a date or with a date that does not parse is
\* not appended to a profile with data and not counted in addedCount.
C8_UndatedRowsNeverAdded ==
    HadData =>
        /\ \A k \in DOMAIN last.added : Parseable(last.added[k].date)
        /\ \A i \in DOMAIN IncomingTx :
              ~Parseable(IncomingTx[i].date) => IncomingTx[i] \notin Range(last.added)
        /\ last.addedCount = Len(last.added)
        /\ last.addedCount <=
              Cardinality({i \in DOMAIN IncomingTx : Parseable(IncomingTx[i].date)})
        /\ last.addedCount > 0 =>
              Len(SplitLines(CsvOf(profiles, last.id))) =
                 1 + Len(parse(last.before).rows) + last.addedCount

\* a merge of a text with undated rows that appended its dated rows
C8_Witness ==
    /\ HadData
    /\ \E i \in DOMAIN IncomingTx : IncomingTx[i].date = <<>>
    /\ \E i \in DOMAIN IncomingTx : IncomingTx[i].date # <<>> /\ ~Parseable(IncomingTx[i].date)
    /\ last.addedCount > 0

\* ------------------------------------------------------------------------
\* Properties of the session-clustering estimate
\* ------------------------------------------------------------------------

HoursCall == hours.op = "computeHoursForReasons"

\* the transactions of the call that pass its three filters
Matching ==
    {i \in DOMAIN hours.transactions :
        /\ transactionMatchesReasons(hours.transactions[i].reason, hours.reasons)
        /\ transactionMatchesFroms(hours.transactions[i].from, hours.froms)
        /\ transactionWithinDateRange(hours.transactions[i].date, hours.dateStart, hours.dateEnd)}

\* the indices at which a session starts: the first timestamp and every
\* timestamp more than one hour after its predecessor
SessionStarts(ts) == {i \in DOMAIN ts : i = 1 \/ ts[i] - ts[i - 1] > ONE_HOUR}

\* the index of the last timestamp of the session that starts at s
SessionEnd(ts, s) ==
    CHOOSE j \in s..Len(ts) :
        /\ \A k \in (s + 1)..j : k \notin SessionStarts(ts)
        /\ j = Len(ts) \/ j + 1 \in SessionStarts(ts)

RECURSIVE SumOfSessions(_, _)
SumOfSessions(ts, starts) ==
    IF starts = {} THEN 0
    ELSE LET s == CHOOSE x \in starts : TRUE
         IN  (ts[SessionEnd(ts, s)] + ONE_HOUR - ts[s]) + SumOfSessions(ts, starts \ {s})

T1000 == GetTime(parseBankingDate(D1000))

\* C9: the estimate over the ascending timestamps of the matching
\* transactions is the sum over the sessions of last timestamp + 1 hour -
\* session start, where a gap of more than one hour starts a session; no
\* timestamp gives 0 and 10:00, 10:30, 13:00 give 2.5 hours.
C9_HoursIsSumOverSessions ==
    HoursCall =>
        LET ts == hours.relevant
        IN  /\ Len(ts) = Cardinality(Matching)
            /\ \A i \in Matching : \E k \in DOMAIN ts :
                  ts[k] = GetTime(parseBankingDate(hours.transactions[i].date))
            /\ \A i, j \in DOMAIN ts : i < j => ts[i] <= ts[j]
            /\ hours.result = SumOfSessions(ts, SessionStarts(ts))
            /\ Len(ts) = 0 => hours.result = 0
            /\ ts = <<T1000, T1000 + 30, T1000 + 180>> => 2 * hours.result = 5 * ONE_HOUR

\* the timestamps 10:00, 10:30, 13:00, listed out of order by the text
C9_Witness ==
    /\ HoursCall
    /\ Len(hours.transactions) = 3
    /\ hours.transactions[1].date = D1300
    /\ hours.relevant = <<T1000, T1000 + 30, T1000 + 180>>
    /\ hours.result = 150

\* C10: a transaction whose date neither the pattern nor the generic
\* fallback parses contributes no timestamp to the estimate and matches no
\* date-range filter.
C10_UnparseableDateExcluded ==
    HoursCall =>
        LET unparseable(i) ==
                /\ ~HasPattern(hours.transactions[i].date)
                /\ IsNaN(NewDateFromString(hours.transactions[i].date))
        IN  /\ \A i \in DOMAIN hours.transactions :
                  unparseable(i) =>
                     ~transactionWithinDateRange(hours.transactions[i].date,
                                                 hours.dateStart, hours.dateEnd)
            /\ Len(hours.relevant) = Cardinality({i \in Matching : ~unparseable(i)})

\* ------------------------------------------------------------------------
\* Properties of the banking summary
\* ------------------------------------------------------------------------

BankingCall == result.op = "parseBankingData"

\* the sum of a sequence of numbers, added from left to right
RECURSIVE SumOf(_)
SumOf(nums) ==
    IF nums = <<>> THEN Zero
    ELSE NumAdd(SumOf(SubSeq(nums, 1, Len(nums) - 1)), nums[Len(nums)])

AmountsAt(transactions, indices) ==
    LET chosen == SelectSeqIdx(transactions, indices, 1)
    IN  [i \in DOMAIN chosen |-> chosen[i].amount]

\* C11: in every table parseBankingData returns, summary.deposits -
\* summary.withdrawals is summary.netChange, and summary.netChange is
\* totalAmount (a NaN counts as the same number as a NaN).
C11_NetChangeIsTotalAmount ==
    BankingCall =>
        /\ NumSub(result.table.summary.deposits, result.table.summary.withdrawals)
              = result.table.summary.netChange
        /\ result.table.summary.netChange = result.table.totalAmount

\* C12: deposits is the sum of the amounts of exactly the transactions with
\* amount > 0 and withdrawals is the sum of |amount| over all the others, a
\* zero amount among them.
C12_DepositsAndWithdrawals ==
    BankingCall =>
        LET ts       == result.table.transactions
            positive == {i \in DOMAIN ts : NumPositive(ts[i].amount)}
            others   == AmountsAt(ts, DOMAIN ts \ positive)
        IN  /\ \A i \in DOMAIN ts : ts[i].amount = Zero => i \notin positive
            /\ result.table.summary.deposits = SumOf(AmountsAt(ts, positive))
            /\ result.table.summary.withdrawals = SumOf([i \in DOMAIN others |-> NumAbs(others[i])])

\* +$500, -$2,500 and $0: deposits 500, withdrawals 2500
C12_Witness ==
    /\ BankingCall
    /\ Len(result.table.transactions) = 3
    /\ \E i \in DOMAIN result.table.transactions : result.table.transactions[i].amount = Zero
    /\ result.table.summary.deposits = parseFloat(<<"5", "0", "0">>)
    /\ result.table.summary.withdrawals = parseFloat(<<"2", "5", "0", "0">>)

TypeCall == result.op = "getTransactionsByType"

\* C13: getTransactionsByType returns for 'deposits' exactly the
\* transactions with amount > 0, for 'withdrawals' exactly those with
\* amount < 0 and for 'all' every transaction; a zero amount is in neither
\* of the first two, and no transaction is in both.
C13_TypeFilter ==
    TypeCall =>
        LET ts        == result.transactions
            positive  == {i \in DOMAIN ts : NumPositive(ts[i].amount)}
            negative  == {i \in DOMAIN ts : NumNegative(ts[i].amount)}
            returnedOf(type) == IF type = "deposits" THEN SelectSeqIdx(ts, positive, 1)
                                ELSE IF type = "withdrawals" THEN SelectSeqIdx(ts, negative, 1)
                                ELSE ts
        IN  /\ result.returned = returnedOf(result.type)
            /\ positive \cap negative = {}
            /\ result.type # "all" =>
                  \A k \in DOMAIN result.returned : result.returned[k].amount # Zero
            /\ result.type = "deposits" =>
                  \A k \in DOMAIN result.returned : ~NumNegative(result.returned[k].amount)
            /\ result.type = "withdrawals" =>
                  \A k \in DOMAIN result.returned : ~NumPositive(result.returned[k].amount)

\* the withdrawals of +$500, -$2,500, $0
C13_Witness ==
    /\ TypeCall
    /\ result.type = "withdrawals"
    /\ Len(result.transactions) = 3
    /\ \E i \in DOMAIN result.transactions : result.transactions[i].amount = Zero
    /\ \E i \in DOMAIN result.transactions : NumPositive(result.transactions[i].amount)
    /\ Len(result.returned) = 1

SummaryCall == result.op = "calculateSummary"

SameTotals(a, b) ==
    /\ a.deposits = b.deposits
    /\ a.withdrawals = b.withdrawals
    /\ a.netChange = b.netChange

\* C14: calculateSummary returns the same deposits, withdrawals and
\* netChange for every order of the same transactions.
C14_SummaryIsOrderIndependent ==
    SummaryCall => SameTotals(result.summary, parseBankingData(csvContent).summary)

\* ------------------------------------------------------------------------
\* Properties of the custom-summary net
\* ------------------------------------------------------------------------

NetCall == hours.op = "computeNetWithFilters"

\* the date parses, by the pattern or by the generic fallback, and lies
\* within the bounds that are given
WithinBounds(dateStr, dateStart, dateEnd) ==
    /\ Parseable(dateStr)
    /\ dateStart # <<>> => TimeOf(dateStr) >= GetTime(NewDateFromString(dateStart))
    /\ dateEnd # <<>> => TimeOf(dateStr) <= GetTime(NewDateFromString(dateEnd))

ContainsOneOf(text, entries) ==
    \E k \in DOMAIN entries : Includes(ToLowerCase(text), ToLowerCase(Trim(entries[k])))

\* C15: the net is the signed sum of amount over exactly the transactions
\* whose reason contains one of reasons (or reasons is empty), whose from
\* contains one of froms (or froms is empty) and whose parsed date lies
\* within [dateStart, dateEnd], each bound optional and inclusive.
C15_NetIsSumOverMatches ==
    NetCall =>
        LET ts      == hours.transactions
            matches == {i \in DOMAIN ts :
                           /\ hours.reasons = <<>> \/ ContainsOneOf(ts[i].reason, hours.reasons)
                           /\ hours.froms = <<>> \/ ContainsOneOf(ts[i].from, hours.froms)
                           /\ WithinBounds(ts[i].date, hours.dateStart, hours.dateEnd)}
        IN  hours.result = SumOf(AmountsAt(ts, matches))

\* ------------------------------------------------------------------------
\* Properties of the tokenizer, the header recovery and the export
\* ------------------------------------------------------------------------

TokenizerCall == result.op = "parseCSVLine"

\* The mode before position i: a quote toggles it, and a doubled quote read
\* in quoted mode leaves it as two toggles would.
Outside(line, i) == Cardinality({j \in 1..(i - 1) : line[j] = QUOTE}) % 2 = 0

Separators(line) == {i \in DOMAIN line : line[i] = COMMA /\ Outside(line, i)}

\* the first position of the run of quotes that position i lies in
RunStart(line, i) ==
    CHOOSE p \in 1..i : /\ \A k \in p..i : line[k] = QUOTE
                        /\ p = 1 \/ line[p - 1] # QUOTE

\* What position i adds to its field.  In a run of quotes entered in quoted
\* mode the quotes pair up from the first one, in a run entered outside the
\* first quote opens the mode and the quotes pair up from the second one;
\* each pair stands for one literal quote.
Appended(line, i) ==
    IF line[i] # QUOTE THEN <<line[i]>>
    ELSE LET offset == i - RunStart(line, i) + 1
         IN  IF Outside(line, RunStart(line, i))
             THEN IF offset % 2 = 1 /\ offset >= 3 THEN <<QUOTE>> ELSE <<>>
             ELSE IF offset % 2 = 0 THEN <<QUOTE>> ELSE <<>>

FieldsOf(line) ==
    LET seps     == Separators(line)
        nth(k)   == CHOOSE x \in seps : Cardinality({y \in seps : y < x}) = k - 1
        first(k) == IF k = 1 THEN 1 ELSE nth(k - 1) + 1
        final(k) == IF k = Cardinality(seps) + 1 THEN Len(line) ELSE nth(k) - 1
    IN  [k \in 1..(Cardinality(seps) + 1) |->
            Join([i \in 1..(final(k) - first(k) + 1) |-> Appended(line, first(k) + i - 1)], <<>>)]

\* C16: a line yields 1 + (commas outside quoted mode) fields, the last one
\* without a trailing delimiter; a comma in quoted mode and every other
\* character is appended, a quote followed by a quote in quoted mode appends
\* one quote and keeps the mode, any other quote toggles the mode.
C16_TokenizerIsTwoStateMachine ==
    TokenizerCall =>
        /\ Len(result.values) = 1 + Cardinality(Separators(result.line))
        /\ result.values = FieldsOf(result.line)

\* "x,y","a""b",c"d"e
C16_Witness ==
    /\ TokenizerCall
    /\ \E i \in DOMAIN result.line : result.line[i] = COMMA /\ ~Outside(result.line, i)
    /\ result.values = << <<"x", COMMA, "y">>, <<"a", QUOTE, "b">>, <<"c", "d", "e">> >>

ParseCall == result.op = "parse"

\* the lines of the text that parse keeps
KeptLines(text) ==
    SelectSeqIdx(SplitLines(text), {i \in DOMAIN SplitLines(text) : Trim(SplitLines(text)[i]) # <<>>}, 1)

NotBlank(text) == \E i \in DOMAIN text : ~IsSpace(text[i])

\* the name of the column at zero-based position N > 0, N + 1 below 10
ColumnName(N) == <<"C", "o", "l", "u", "m", "n", Digits[N + 2]>>

\* C17: a header that is empty after trimming becomes TransactionID at
\* position 0 and Column<N+1> at another zero-based position N; other
\* headers are kept, trimmed; "","From","Amount" gives TransactionID, From,
\* Amount.
C17_EmptyHeadersAreNamed ==
    ParseCall /\ NotBlank(csvContent) =>
        LET tokens == parseCSVLine(KeptLines(csvContent)[1])
        IN  /\ Len(result.table.headers) = Len(tokens)
            /\ \A i \in DOMAIN tokens :
                  result.table.headers[i] =
                     IF Trim(tokens[i]) # <<>> THEN Trim(tokens[i])
                     ELSE IF i - 1 = 0 THEN HTransactionID
                     ELSE ColumnName(i - 1)
            /\ tokens = << <<>>, HFrom, HAmount >>
                  => result.table.headers = <<HTransactionID, HFrom, HAmount>>

\* Name,, Note, gives Name, Column2, Note, Column4
C17_Witness ==
    /\ ParseCall
    /\ result.table.headers = <<HName, <<"C", "o", "l", "u", "m", "n", "2">>,
                                <<"N", "o", "t", "e">>, <<"C", "o", "l", "u", "m", "n", "4">> >>

\* the tokens of the line the k-th row was built from
RowTokens(text, k) == parseCSVLine(Trim(KeptLines(text)[k + 1]))

\* C18 as stated: every row has a value for every header, the token at the
\* header's position (trimmed, as every value is) or the empty string when
\* the line has none; totalRows is the number of rows.
C18_RowsFollowHeaderPositions ==
    ParseCall /\ NotBlank(csvContent) =>
        LET headers == result.table.headers
            rows    == result.table.rows
        IN  /\ result.table.totalRows = Len(rows)
            /\ Len(rows) = Len(KeptLines(csvContent)) - 1
            /\ \A k \in DOMAIN rows :
                  /\ DOMAIN rows[k] = Range(headers)
                  /\ \A i \in DOMAIN headers :
                        rows[k][headers[i]] =
                           IF i <= Len(RowTokens(csvContent, k))
                           THEN Trim(RowTokens(csvContent, k)[i]) ELSE <<>>

\* C18 amended: the value of a header is taken at the last position that
\* carries the header's name.
C18_RowsFollowLastHeaderPosition ==
    ParseCall /\ NotBlank(csvContent) =>
        LET headers == result.table.headers
            rows    == result.table.rows
        IN  /\ result.table.totalRows = Len(rows)
            /\ Len(rows) = Len(KeptLines(csvContent)) - 1
            /\ \A k \in DOMAIN rows :
                  /\ DOMAIN rows[k] = Range(headers)
                  /\ \A i \in DOMAIN headers :
                        (\A j \in DOMAIN headers : headers[j] = headers[i] => j <= i)
                        => rows[k][headers[i]] =
                              IF i <= Len(RowTokens(csvContent, k))
                              THEN Trim(RowTokens(csvContent, k)[i]) ELSE <<>>

\* a row of one token and a row of five tokens under four headers
C18_Witness ==
    /\ ParseCall
    /\ Len(result.table.headers) = 4
    /\ result.table.totalRows = 3
    /\ Len(RowTokens(csvContent, 1)) = 1
    /\ Len(RowTokens(csvContent, 2)) = 5
    /\ result.table.rows[1][result.table.headers[4]] = <<>>

\* C19: a text without a line that is not blank gives the empty table, and
\* parseBankingData gives no transactions, zero totals, zero average, an
\* empty date range and a zero summary.
C19_EmptyInputGivesZeroTable ==
    ~NotBlank(csvContent) =>
        /\ ParseCall => result.table = [headers |-> <<>>, rows |-> <<>>, totalRows |-> 0]
        /\ BankingCall =>
              /\ result.table.transactions = <<>>
              /\ result.table.totalTransactions = 0
              /\ result.table.totalAmount = Zero
              /\ result.table.averageAmount = Zero
              /\ result.table.dateRange = {[start |-> <<>>, end |-> <<>>]}
              /\ result.table.summary = [deposits |-> Zero, withdrawals |-> Zero, netChange |-> Zero]

C19_Witness ==
    /\ BankingCall
    /\ csvContent = <<NL, NL>>
    /\ result.table.totalTransactions = 0

ExportCall == result.op = "exportToCSV"

NoQuoteInValues(table) ==
    \A r \in DOMAIN table.rows : \A h \in DOMAIN table.rows[r] :
        QUOTE \notin Range(table.rows[r][h])

\* the text exported from the table parses to the table's headers and rows
\* and exports to the same text again
RoundTrips ==
    /\ result.parsed.headers = result.table.headers
    /\ result.parsed.rows = result.table.rows
    /\ result.again = result.text

\* C20 as stated: a table whose field values hold no literal quote is
\* reproduced by exporting, parsing and exporting again.
C20_RoundTrip ==
    ExportCall /\ NoQuoteInValues(result.table) => RoundTrips

\* a text parse keeps unchanged as a header or as a value
Plain(text) == text = Trim(text) /\ NL \notin Range(text)

\* the table has the form of the tables parse returns
ParsedForm(table) ==
    /\ \A i \in DOMAIN table.headers : table.headers[i] # <<>> /\ Plain(table.headers[i])
    /\ table.headers = <<>> => table.rows = <<>>
    /\ \A r \in DOMAIN table.rows :
          /\ DOMAIN table.rows[r] = Range(table.headers)
          /\ \A h \in DOMAIN table.rows[r] : Plain(table.rows[r][h])

\* C20 amended: the table has the form parse returns, and neither a header
\* nor a value holds a literal quote.
C20_RoundTripOfParsedTables ==
    ExportCall /\ ParsedForm(result.table) /\ NoLiteralQuote(result.table) => RoundTrips

\* A, "B,C" with the values x,y and z
C20_Witness ==
    /\ ExportCall
    /\ ParsedForm(result.table)
    /\ NoLiteralQuote(result.table)
    /\ result.table.totalRows = 2
    /\ \E h \in DOMAIN result.table.rows[1] : COMMA \in Range(result.table.rows[1][h])
    /\ RoundTrips

\* ------------------------------------------------------------------------
\* Properties of parseAmount
\* ------------------------------------------------------------------------

AmountCall == result.op = "parseAmount"

\* the string without '$', ',', '+' and white space
Stripped(str) == SelectSeq(str, LAMBDA c : c \notin {"$", COMMA, "+"} /\ ~IsSpace(c))

\* what follows the leading '-', if any
Remainder(stripped) == IF StartsWithMinus(stripped) THEN Tail(stripped) ELSE stripped

PointsOf(str) == {i \in DOMAIN str : str[i] = "."}

\* digits with at most one decimal point, and at least one digit
IsNumeric(str) ==
    /\ \A i \in DOMAIN str : IsDigit(str[i]) \/ str[i] = "."
    /\ Cardinality(PointsOf(str)) <= 1
    /\ \E i \in DOMAIN str : IsDigit(str[i])

\* the value of a numeric string
ValueOfNumeric(str) ==
    DecimalValue(FALSE,
                 BigFromDigits(SelectSeq(str, IsDigit), 1, <<>>),
                 Cardinality({i \in DOMAIN str : \E p \in PointsOf(str) : p < i}))

Number500 == RoundToDouble(FALSE, BigFromInt(500), 0, FALSE)

Number2500 == RoundToDouble(FALSE, BigFromInt(2500), 0, FALSE)

\* C21: parseAmount strips '$', ',', '+' and white space; the value is the
\* remainder's number, negative exactly when the stripped string starts
\* with '-', and NaN when the remainder is not numeric; '+$500' gives 500,
\* '-$2,500' gives -2500, 'abc' gives NaN and '$0' gives 0, which is not
\* greater than 0 and so no deposit.
C21_ParseAmount ==
    AmountCall =>
        /\ IF IsNumeric(Remainder(Stripped(result.amountStr)))
           THEN result.num = Signed(StartsWithMinus(Stripped(result.amountStr)),
                                    ValueOfNumeric(Remainder(Stripped(result.amountStr))))
           ELSE result.num = NaN
        /\ result.amountStr = Plus500 => result.num = Number500
        /\ result.amountStr = Minus2500 => result.num = NumNeg(Number2500)
        /\ result.amountStr = Abc => result.num = NaN
        /\ result.amountStr = Dollar0 => result.num = Zero /\ ~NumPositive(result.num)

\* ------------------------------------------------------------------------
\* Properties of the built-in hour totals
\* ------------------------------------------------------------------------

TruckingCall == hours.op = "truckingHours"

ShiftsCall == hours.op = "shiftsHours"

\* computeHoursForReasons over the transactions with the reasons as its only filter
HoursForReasons(transactions, reasons) ==
    computeHoursForReasons(<<[transactions |-> transactions]>>, reasons, <<>>, <<>>, <<>>)

\* C22: the trucking hours and the shifts hours each equal what
\* computeHoursForReasons gives for the corresponding fixed filter over the
\* same transactions.
C22_LegacyHoursAreCustomSummaries ==
    /\ TruckingCall => hours.result = HoursForReasons(hours.transactions, TruckingReasons)
    /\ ShiftsCall => hours.result * ONE_HOUR = HoursForReasons(hours.transactions, ShiftsReasons)

ReasonOf(t) == ToLowerCase(Trim(t.reason))

\* C22, amended: the trucking hours equal what computeHoursForReasons gives,
\* without any filter, over the transactions whose reason contains
\* "(trucking)" or is "purchase of components"; the shifts hours are the
\* number of transactions whose reason is "work payment", one hour each.
C22_LegacyHours ==
    /\ TruckingCall =>
          hours.result =
              HoursForReasons(SelectSeq(hours.transactions,
                                        LAMBDA t : \/ Includes(ReasonOf(t), ReasonTrucking)
                                                   \/ ReasonOf(t) = ReasonComponents),
                              <<>>)
    /\ ShiftsCall =>
          hours.result = Len(SelectSeq(hours.transactions,
                                       LAMBDA t : ReasonOf(t) = ReasonWorkPayment))

\* trucking hours of one session of two entries, with a longer components
\* reason present
C22_Witness ==
    /\ TruckingCall
    /\ hours.result = ONE_HOUR + 30
    /\ \E i \in DOMAIN hours.transactions : hours.transactions[i].reason = ComponentsTax

\* ------------------------------------------------------------------------
\* Properties of the monthly summary
\* ------------------------------------------------------------------------

MonthlyCall == result.op = "getMonthlySummary"

\* the transactions whose date parses
Dated(transactions) == {i \in DOMAIN transactions : ~IsNaN(parseDate(transactions[i].date))}

\* the transactions of the month of a key
InMonth(transactions, key) ==
    {i \in Dated(transactions) : MonthKey(parseDate(transactions[i].date)) = key}

AbsOf(nums) == [i \in DOMAIN nums |-> NumAbs(nums[i])]

BucketOf(transactions, members) ==
    [count       |-> Cardinality(members),
     total       |-> SumOf(AmountsAt(transactions, members)),
     deposits    |-> SumOf(AmountsAt(transactions,
                                     {i \in members : NumPositive(transactions[i].amount)})),
     withdrawals |-> SumOf(AbsOf(AmountsAt(transactions,
                                           {i \in members : ~NumPositive(transactions[i].amount)})))]

\* C23: getMonthlySummary has one bucket for every (year, month) of a
\* transaction whose date parses and no other; a bucket's count is the
\* number of transactions of the month, its total their signed sum, its
\* deposits the sum of the amounts > 0, its withdrawals the sum of |amount|
\* of the others, and total is deposits - withdrawals.
C23_MonthlyBuckets ==
    MonthlyCall =>
        /\ DOMAIN result.monthly =
              {MonthKey(parseDate(result.transactions[i].date)) : i \in Dated(result.transactions)}
        /\ \A key \in DOMAIN result.monthly :
              /\ result.monthly[key] = BucketOf(result.transactions, InMonth(result.transactions, key))
              /\ result.monthly[key].total =
                    NumSub(result.monthly[key].deposits, result.monthly[key].withdrawals)

\* ------------------------------------------------------------------------
\* Properties of the profile list and the active profile
\* ------------------------------------------------------------------------

SwitchCall == last.op = "switchProfile" /\ last.ok

\* C24: after a switchProfile(id) that completed, the active profile is the
\* entry with that id of the profiles list, lastActive included.
C24_ActiveIsListEntryAfterSwitch ==
    SwitchCall =>
        /\ activeProfile # <<>>
        /\ activeProfile[1].id = last.id
        /\ activeProfile[1] = profiles[FindIndex(profiles, last.id)]

InitializeCall == last.op = "initialize"

\* C25: initialization makes the loaded profile with the most recent
\* lastActive the active one, the first loaded profile when none has a
\* lastActive, and leaves the active profile null when nothing is loaded.
C25_InitializeSelectsLastActive ==
    InitializeCall =>
        IF profiles = <<>> THEN activeProfile = <<>>
        ELSE IF \E i \in DOMAIN profiles : profiles[i].lastActive # 0
        THEN /\ activeProfile # <<>>
             /\ \E i \in DOMAIN profiles :
                   /\ activeProfile[1] = profiles[i]
                   /\ profiles[i].lastActive # 0
                   /\ \A j \in DOMAIN profiles : profiles[j].lastActive <= profiles[i].lastActive
        ELSE activeProfile = <<profiles[1]>>

\* the active profile is null or has the id of a profile of the list
ActiveIsListed ==
    activeProfile = <<>> \/ \E i \in DOMAIN profiles : profiles[i].id = activeProfile[1].id

\* a step of deleteProfile: the deleted id leaves the list; deleting the
\* active profile makes the first remaining profile active, or null when
\* none remains; deleting another profile leaves the active profile as it is
DeleteStep ==
    last'.op = "deleteProfile" =>
        /\ profiles' = SelectSeq(profiles, LAMBDA p : p.id # last'.id)
        /\ IF activeProfile # <<>> /\ activeProfile[1].id = last'.id
           THEN activeProfile' = IF profiles' # <<>> THEN <<profiles'[1]>> ELSE <<>>
           ELSE activeProfile' = activeProfile

\* C26: after any sequence of completed addProfile, updateProfile,
\* deleteProfile, switchProfile and saveOrMergeProfileData calls the active
\* profile is null or has the id of a profile of the list; deleting the
\* active profile activates the first remaining profile or null, and
\* deleting another profile leaves the active profile unchanged.
C26_ActiveProfileIsListed == [](ActiveIsListed) /\ [][DeleteStep]_vars

\* the active profile was deleted and the remaining profile took its place
C26_Witness ==
    /\ last.op = "deleteProfile"
    /\ Len(profiles) = 1
    /\ activeProfile = <<profiles[1]>>
    /\ profiles[1].id = 2
    /\ last.id = 1

\* ------------------------------------------------------------------------
\* Properties of the merged text
\* ------------------------------------------------------------------------

\* the rows of the returned text from position n + 1 on carry the dates of
\* the added transactions
LastRowsCarryDates(rows, n, added) ==
    \A j \in DOMAIN added : RowGet(rows[n + j], HDate) = added[j].date

\* C27: when saveOrMergeProfileData returns mode "merged" with addedCount k
\* on a profile with text, the returned text parses to the number of rows
\* of the previous text plus k, and its last k rows carry the dates of the
\* selected incoming transactions.
C27_AddedCountMatchesText ==
    (HadData /\ last.mode = "merged") =>
        /\ last.addedCount = Len(last.added)
        /\ parse(last.csvData).totalRows = parse(last.before).totalRows + last.addedCount
        /\ LastRowsCarryDates(parse(last.csvData).rows, parse(last.before).totalRows, last.added)

\* ------------------------------------------------------------------------
\* Bounds of the session-clustering estimate
\* ------------------------------------------------------------------------

\* the sum of the gaps between consecutive timestamps that exceed one hour
RECURSIVE LongGaps(_, _)
LongGaps(ts, i) ==
    IF i > Len(ts) THEN 0
    ELSE (IF ts[i] - ts[i - 1] > ONE_HOUR THEN ts[i] - ts[i - 1] ELSE 0) + LongGaps(ts, i + 1)

Without(ts, i) == SubSeq(ts, 1, i - 1) \o SubSeq(ts, i + 1, Len(ts))

\* C28: over n >= 1 timestamps the estimate is at least 1 hour and at most
\* n hours, at least one hour for every session, and at least latest -
\* earliest + 1 hour minus the gaps that exceed one hour; it is never less
\* than the estimate over the same timestamps without one of them.
C28_EstimateBounds ==
    (HoursCall /\ hours.relevant # <<>>) =>
        /\ ONE_HOUR <= hours.result
        /\ hours.result <= Len(hours.relevant) * ONE_HOUR
        /\ Cardinality(SessionStarts(hours.relevant)) * ONE_HOUR <= hours.result
        /\ (hours.relevant[Len(hours.relevant)] - hours.relevant[1] + ONE_HOUR)
              - LongGaps(hours.relevant, 2) <= hours.result
        /\ \A i \in DOMAIN hours.relevant :
              SessionTotal(Without(hours.relevant, i)) <= hours.result

\* three timestamps in two sessions, the estimate strictly between the
\* bounds, and one timestamp whose removal lowers it
C28_Witness ==
    /\ HoursCall
    /\ Len(hours.relevant) = 3
    /\ Cardinality(SessionStarts(hours.relevant)) = 2
    /\ 2 * ONE_HOUR < hours.result
    /\ hours.result < 3 * ONE_HOUR
    /\ \E i \in DOMAIN hours.relevant : SessionTotal(Without(hours.relevant, i)) < hours.result

\* ------------------------------------------------------------------------
\* Properties of the calls in flight
\* ------------------------------------------------------------------------

AllFinished == calls # <<>> /\ \A k \in DOMAIN calls : calls[k].pc \in {"done", "failed"}

Deleted == {calls[k].id : k \in {j \in DOMAIN calls : calls[j].op = "deleteProfile"}}

IdsOf(ps) == {ps[i].id : i \in DOMAIN ps}

\* C29: once every call started while a deleteProfile(id) was in flight has
\* finished, the deleted id is in neither the _profiles list nor the
\* persisted list, and the persisted list equals the _profiles list.
C29_DeleteSurvivesConcurrentCalls ==
    (AllFinished /\ Deleted # {}) =>
        /\ Deleted \cap IdsOf(profiles) = {}
        /\ Deleted \cap IdsOf(stored) = {}
        /\ stored = profiles

\* ------------------------------------------------------------------------
\* Properties of the upload handler
\* ------------------------------------------------------------------------

\* the lines of the content that are not blank
NonBlankLines(content) ==
    SelectSeq(SplitLines(content), LAMBDA line : \E j \in DOMAIN line : ~IsSpace(line[j]))

Commas(line) == Cardinality({i \in DOMAIN line : line[i] = COMMA})

\* some header of the line contains the word, whatever the case: no word
\* has a comma, so it lies within one header once the quotes are gone
HasHeader(line, word) ==
    Includes(ToLowerCase(SelectSeq(line, LAMBDA c : c # QUOTE)), word)

RejectedLines(lines) ==
    \/ Len(lines) < 2
    \/ Commas(lines[1]) + 1 # 7
    \/ ~HasHeader(lines[1], <<"f", "r", "o", "m">>)
    \/ ~HasHeader(lines[1], <<"a", "m", "o", "u", "n", "t">>)
    \/ ~HasHeader(lines[1], <<"d", "a", "t", "e">>)

NameIsCsv(name) ==
    /\ Len(name) >= 4
    /\ name[Len(name) - 3] = "."
    /\ name[Len(name) - 2] \in {"c", "C"}
    /\ name[Len(name) - 1] \in {"s", "S"}
    /\ name[Len(name)] \in {"v", "V"}

ProcessFileStep == last'.op = "processFile" /\ vars' # vars

\* the case of the step, taken in the state before it
MustRefuse(name, content) ==
    \/ activeProfile = <<>>
    \/ ~NameIsCsv(name)
    \/ RejectedLines(NonBlankLines(content))

\* C30: processFile changes no profile data and dispatches csvError, never
\* csvUploaded, when there is no active profile, when the file name does not
\* end in ".csv" in any case, or when the content has fewer than 2 lines
\* that are not blank, a header count other than 7, or lacks a header
\* containing "from", "amount" or "date"; saveOrMergeProfileData is reached
\* only when none of these is the case.
C30_RefusedUploads ==
    [][ProcessFileStep =>
          /\ MustRefuse(last'.name, last'.content) =>
                /\ UNCHANGED <<profiles, stored, activeProfile>>
                /\ last'.dispatched = "csvError"
          /\ last'.saved => ~MustRefuse(last'.name, last'.content)]_vars

\* a file named A.CsV with seven columns for the parser and eight pieces for
\* split(',') was refused while a profile was active
C30_Witness ==
    /\ last.op = "processFile"
    /\ activeProfile # <<>>
    /\ NameIsCsv(last.name)
    /\ last.name[1] = "A"
    /\ last.content = UploadCommaInHeader
    /\ last.dispatched = "csvError"
    /\ ~last.saved

====
